---- MODULE Spec2Model ----
(***************************************************************************)
(* South Asia policy simulation: the policy effect model, the aggregate    *)
(* spillover propagator, the regional event generator, the trade matrix    *)
(* updater, the scoring function and the yearly loop that drives them.     *)
(*                                                                         *)
(* Numbers of the program are IEEE doubles; here every number is a fixed-  *)
(* point integer in units of 1/Scale (3.5 is 3500), products are rounded   *)
(* toward zero.                                                            *)
(***************************************************************************)
EXTENDS Integers, Sequences, FiniteSets, TLC

VARIABLES
    \* ---- one country's state object, updated year after year by
    \*      PolicySimulator.applyPolicyEffects ----
    heap,            \* object store: address -> CountryStats object
    statsRef,        \* address of the country's current state object
    applyPc,         \* "args": a call is prepared, "ret": the call returned
    argRef,          \* currentStats argument of the call (0 before any call)
    retRef,          \* address returned by the last call (0 before any call)
    decisionsArg,    \* decisions argument of the call
    spilloverArg,    \* spilloverEffects argument of the call
    eventArg,        \* eventEffects argument of the call
    rndDraw,         \* the Math.random() draw of the last call
    calls            \* number of calls made so far

applyVars == <<heap, statsRef, applyPc, argRef, retRef, decisionsArg, spilloverArg,
               eventArg, rndDraw, calls>>

VARIABLES
    \* ---- PolicySimulator.calculateScore ----
    finalStats,      \* finalStats argument
    initialStats,    \* initialStats argument
    score            \* the returned score (-1 before the call)

scoreVars == <<finalStats, initialStats, score>>

VARIABLES
    \* ---- the aggregate spillover propagator ----
    spillPc,             \* "direct" / "regional": call prepared; "directDone" / "regionalDone"
    sourceArg,           \* sourceCountry of calculateTradeSpillovers
    policyChangesArg,    \* policyChanges of calculateTradeSpillovers
    tradeMatrixArg,      \* tradeMatrix argument of either call
    allDecisionsArg,     \* allDecisions of simulateRegionalEffects
    spilloversRet,       \* list returned by calculateTradeSpillovers
    byCountryRet         \* map returned by simulateRegionalEffects

spillVars == <<spillPc, sourceArg, policyChangesArg, tradeMatrixArg, allDecisionsArg,
               spilloversRet, byCountryRet>>

VARIABLES
    \* ---- the trade matrix, updated once per simulated year ----
    liveMatrix,          \* the current list of trade relationships
    tradeYears           \* number of updateTradeMatrix calls so far

tradeVars == <<liveMatrix, tradeYears>>

VARIABLES
    \* ---- the App component (App.tsx) and the trade product loader ----
    gameState,               \* MultiCountryGameState
    allIndicators,           \* the indicator tables, NullData until loaded
    tradeProductsData,       \* module variable of TradeProductsLoader, NullData until loaded
    tradeDataLoaded,
    newEvents,
    playerDecisions,         \* the state "decisions"
    historicalStats,
    gamePhase,               \* "select" / "play" / "report"
    finalScore,
    allCountriesDecisions,
    jitterDraws              \* per country, the Math.random() draw applyPolicyEffects
                             \* made in the last handleNextYear of the game

gameVars == <<gameState, allIndicators, tradeProductsData, tradeDataLoaded, newEvents,
              playerDecisions, historicalStats, gamePhase, finalScore,
              allCountriesDecisions, jitterDraws>>

VARIABLES
    \* ---- the decision lists of all countries, year after year ----
    heldDecisions,       \* allCountriesDecisions: country -> decision list
    heldPlayer,          \* gameState.playerCountry
    decisionsPc,         \* "held": lists set by the effect on [playerCountry, decisions];
                         \* "passed": lists returned by simulateAIDecisions to handleNextYear
    decisionYears        \* number of simulateAIDecisions calls so far

policyVars == <<heldDecisions, heldPlayer, decisionsPc, decisionYears>>

\* one call of RegionalEconomySimulator.generateRegionalEvents
VARIABLES
    eventsPc,         \* "idle", "called" or "returned"
    eventsCall,       \* the arguments and the random draws of the call
    eventsRet         \* the list the call returned

eventsVars == <<eventsPc, eventsCall, eventsRet>>

vars == <<applyVars, scoreVars, spillVars, tradeVars, gameVars, policyVars, eventsVars>>

notEventsVars == <<applyVars, scoreVars, spillVars, tradeVars, gameVars, policyVars>>

notApplyVars == <<scoreVars, spillVars, tradeVars, gameVars, policyVars, eventsVars>>

notScoreVars == <<applyVars, spillVars, tradeVars, gameVars, policyVars, eventsVars>>

notSpillVars == <<applyVars, scoreVars, tradeVars, gameVars, policyVars, eventsVars>>

notTradeVars == <<applyVars, scoreVars, spillVars, gameVars, policyVars, eventsVars>>

notGameVars == <<applyVars, scoreVars, spillVars, tradeVars, policyVars, eventsVars>>

notPolicyVars == <<applyVars, scoreVars, spillVars, tradeVars, gameVars, eventsVars>>

----------------------------------------------------------------------------
\* Fixed-point arithmetic

Scale == 10 * 10 * 10

Abs(x) == IF x < 0 THEN 0 - x ELSE x

Sign(x) == IF x < 0 THEN 0 - 1 ELSE 1

Max(a, b) == IF a > b THEN a ELSE b

Min(a, b) == IF a < b THEN a ELSE b

\* a * b of two fixed-point numbers, rounded toward zero; the product is
\* split so that no intermediate value leaves 32 bits
MulAbs(a, b) == a * (b \div Scale) + (a * (b % Scale)) \div Scale

Mul(a, b) == Sign(a) * Sign(b) * MulAbs(Abs(a), Abs(b))

\* a / n for a plain integer n (the "/ 100" of the source), toward zero
DivInt(a, n) == Sign(a) * (Abs(a) \div n)

\* JavaScript's  x || d  on numbers: d replaces 0 (and undefined)
OrDefault(x, d) == IF x = 0 THEN d ELSE x

----------------------------------------------------------------------------
\* PolicySimulator.applyPolicyEffects

\* decisions.find(d => d.id === id)?.value || dflt
DecisionValue(decisions, id, dflt) ==
    LET hits == {i \in 1..Len(decisions) : decisions[i].id = id}
    IN  IF hits = {} THEN dflt
        ELSE OrDefault(decisions[CHOOSE i \in hits : \A j \in hits : i <= j].value, dflt)

\* typeof statsRecord[key] === 'number'
IsNumberField(key) == key # "country"

\* the deltas with the tariff lever measured from the fixed baseline 15
PolicyDeltasTariffBaseline(currentStats, decisions) ==
    LET tariffPolicy == DecisionValue(decisions, "tariffs", 15000)
        ntbPolicy == DecisionValue(decisions, "ntbs", 60000)
        connectivityPolicy == DecisionValue(decisions, "connectivity", 5000)
        trustPolicy == DecisionValue(decisions, "trust", 50000)
        agricultureSpending == DecisionValue(decisions, "agriculture", 3500)
        manufacturingSpending == DecisionValue(decisions, "manufacturing", 2000)
        servicesSpending == DecisionValue(decisions, "services", 1500)
        energySpending == DecisionValue(decisions, "energy", 4000)
        technologySpending == DecisionValue(decisions, "technology", 1000)
        educationChange == OrDefault(currentStats.education_spending, 4000) - 4000
        healthChange == OrDefault(currentStats.health_expenditure, 3000) - 3000
        infraChange == connectivityPolicy - OrDefault(currentStats.infrastructure_investment, 5000)
        agricultureChange == agricultureSpending - OrDefault(currentStats.agriculture_spending, 3500)
        agriGdpShare == DivInt(OrDefault(currentStats.agriculture_gdp_percent, 15000), 100)
        manufacturingChange == manufacturingSpending - OrDefault(currentStats.manufacturing_spending, 2000)
        manuGdpShare == DivInt(OrDefault(currentStats.manufacturing_gdp_percent, 20000), 100)
        servicesChange == servicesSpending - OrDefault(currentStats.services_spending, 1500)
        servGdpShare == DivInt(OrDefault(currentStats.services_gdp_percent, 50000), 100)
        energyChange == energySpending - OrDefault(currentStats.energy_spending, 4000)
        technologyChange == technologySpending - OrDefault(currentStats.technology_spending, 1000)
        tariffEffect == DivInt(tariffPolicy - 15000, 100)
        ntbEffect == DivInt(ntbPolicy - 60000, 100)
        cooperationEffect == DivInt(trustPolicy - 50000, 100)
        tradeVolumeProxy == 100000 - Mul(tariffPolicy, 500) - Mul(ntbPolicy, 300)
                            + Mul(connectivityPolicy, 2000) + Mul(trustPolicy, 200)
        withKpi == [k \in DOMAIN currentStats \cup {"tariffRevenue"} |->
                      IF k = "tariffRevenue"
                      THEN Mul(DivInt(tariffPolicy, 100), Mul(tradeVolumeProxy, 500))
                      ELSE currentStats[k]]
    IN  [withKpi EXCEPT
           !.literacy_rate = @ + Mul(educationChange, 250) + Mul(technologyChange, 100),
           !.gdp_growth = @ + Mul(educationChange, 30) + Mul(healthChange, 20)
                            + Mul(infraChange, 50)
                            + Mul(Mul(agricultureChange, 200), agriGdpShare)
                            + Mul(Mul(manufacturingChange, 300), manuGdpShare)
                            + Mul(Mul(servicesChange, 200), servGdpShare)
                            + Mul(energyChange, 100) + Mul(technologyChange, 100)
                            - Mul(tariffEffect, 120) - Mul(ntbEffect, 80)
                            + Mul(cooperationEffect, 60),
           !.life_expectancy = @ + Mul(healthChange, 80),
           !.infant_mortality = @ - Mul(healthChange, 300),
           !.unemployment = @ - Mul(infraChange, 100)
                              - Mul(Mul(manufacturingChange, 400), manuGdpShare)
                              - Mul(Mul(servicesChange, 250), servGdpShare)
                              + Mul(tariffEffect, 90),
           !.poverty_rate = @ - Mul(infraChange, 150)
                              - Mul(Mul(agricultureChange, 500), agriGdpShare)
                              + Mul(tariffEffect, 180),
           !.co2_emissions = @ + Mul(energyChange, 50),
           !.infrastructure_investment = connectivityPolicy + Mul(cooperationEffect, 300)]

\* lines 26-88: the policy-driven deltas and the tariff revenue KPI
PolicyDeltas(currentStats, decisions) ==
    LET tariffPolicy == DecisionValue(decisions, "tariffs", 15000)
        ntbPolicy == DecisionValue(decisions, "ntbs", 60000)
        connectivityPolicy == DecisionValue(decisions, "connectivity", 5000)
        trustPolicy == DecisionValue(decisions, "trust", 50000)
        agricultureSpending == DecisionValue(decisions, "agriculture", 3500)
        manufacturingSpending == DecisionValue(decisions, "manufacturing", 2000)
        servicesSpending == DecisionValue(decisions, "services", 1500)
        energySpending == DecisionValue(decisions, "energy", 4000)
        technologySpending == DecisionValue(decisions, "technology", 1000)
        educationChange == OrDefault(currentStats.education_spending, 4000) - 4000
        healthChange == OrDefault(currentStats.health_expenditure, 3000) - 3000
        infraChange == connectivityPolicy - OrDefault(currentStats.infrastructure_investment, 5000)
        agricultureChange == agricultureSpending - OrDefault(currentStats.agriculture_spending, 3500)
        agriGdpShare == DivInt(OrDefault(currentStats.agriculture_gdp_percent, 15000), 100)
        manufacturingChange == manufacturingSpending - OrDefault(currentStats.manufacturing_spending, 2000)
        manuGdpShare == DivInt(OrDefault(currentStats.manufacturing_gdp_percent, 20000), 100)
        servicesChange == servicesSpending - OrDefault(currentStats.services_spending, 1500)
        servGdpShare == DivInt(OrDefault(currentStats.services_gdp_percent, 50000), 100)
        energyChange == energySpending - OrDefault(currentStats.energy_spending, 4000)
        technologyChange == technologySpending - OrDefault(currentStats.technology_spending, 1000)
        tariffEffect == DivInt(tariffPolicy - OrDefault(currentStats.tariff_rate, 15000), 100)
        ntbEffect == DivInt(ntbPolicy - 60000, 100)
        cooperationEffect == DivInt(trustPolicy - 50000, 100)
        tradeVolumeProxy == 100000 - Mul(tariffPolicy, 500) - Mul(ntbPolicy, 300)
                            + Mul(connectivityPolicy, 2000) + Mul(trustPolicy, 200)
        withKpi == [k \in DOMAIN currentStats \cup {"tariffRevenue"} |->
                      IF k = "tariffRevenue"
                      THEN Mul(DivInt(tariffPolicy, 100), Mul(tradeVolumeProxy, 500))
                      ELSE currentStats[k]]
    IN  [withKpi EXCEPT
           !.literacy_rate = @ + Mul(educationChange, 250) + Mul(technologyChange, 100),
           !.gdp_growth = @ + Mul(educationChange, 30) + Mul(healthChange, 20)
                            + Mul(infraChange, 50)
                            + Mul(Mul(agricultureChange, 200), agriGdpShare)
                            + Mul(Mul(manufacturingChange, 300), manuGdpShare)
                            + Mul(Mul(servicesChange, 200), servGdpShare)
                            + Mul(energyChange, 100) + Mul(technologyChange, 100)
                            - Mul(tariffEffect, 120) - Mul(ntbEffect, 80)
                            + Mul(cooperationEffect, 60),
           !.life_expectancy = @ + Mul(healthChange, 80),
           !.infant_mortality = @ - Mul(healthChange, 300),
           !.unemployment = @ - Mul(infraChange, 100)
                              - Mul(Mul(manufacturingChange, 400), manuGdpShare)
                              - Mul(Mul(servicesChange, 250), servGdpShare)
                              + Mul(tariffEffect, 90),
           !.poverty_rate = @ - Mul(infraChange, 150)
                              - Mul(Mul(agricultureChange, 500), agriGdpShare)
                              + Mul(tariffEffect, 180),
           !.co2_emissions = @ + Mul(energyChange, 50),
           !.infrastructure_investment = connectivityPolicy + Mul(cooperationEffect, 300)]

\* the routing with the technology case giving literacy the coefficient of the
\* technology lever (0.1) in place of 0.3
ApplySpilloverTechnologyAsLever(newStats, spillover) ==
    CASE spillover.policyType = "trade_gdp" ->
           [newStats EXCEPT !.gdp_growth = @ + spillover.effect]
      [] spillover.policyType = "infrastructure" ->
           [newStats EXCEPT !.infrastructure_investment = @ + spillover.effect,
                            !.gdp_growth = @ + Mul(spillover.effect, 100)]
      [] spillover.policyType = "environment" ->
           [newStats EXCEPT !.co2_emissions = @ + spillover.effect]
      [] spillover.policyType = "manufacturing" ->
           [newStats EXCEPT !.gdp_growth = @ + Mul(spillover.effect, 100),
                            !.unemployment = @ - Mul(spillover.effect, 50)]
      [] spillover.policyType = "technology" ->
           [newStats EXCEPT !.gdp_growth = @ + Mul(spillover.effect, 150),
                            !.literacy_rate = @ + Mul(spillover.effect, 100)]
      [] spillover.policyType = "energy" ->
           [newStats EXCEPT !.gdp_growth = @ + Mul(spillover.effect, 80)]
      [] OTHER -> newStats

\* lines 91-113: the routing of one inbound spillover
ApplySpillover(newStats, spillover) ==
    CASE spillover.policyType = "trade_gdp" ->
           [newStats EXCEPT !.gdp_growth = @ + spillover.effect]
      [] spillover.policyType = "infrastructure" ->
           [newStats EXCEPT !.infrastructure_investment = @ + spillover.effect,
                            !.gdp_growth = @ + Mul(spillover.effect, 100)]
      [] spillover.policyType = "environment" ->
           [newStats EXCEPT !.co2_emissions = @ + spillover.effect]
      [] spillover.policyType = "manufacturing" ->
           [newStats EXCEPT !.gdp_growth = @ + Mul(spillover.effect, 100),
                            !.unemployment = @ - Mul(spillover.effect, 50)]
      [] spillover.policyType = "technology" ->
           [newStats EXCEPT !.gdp_growth = @ + Mul(spillover.effect, 150),
                            !.literacy_rate = @ + Mul(spillover.effect, 300)]
      [] spillover.policyType = "energy" ->
           [newStats EXCEPT !.gdp_growth = @ + Mul(spillover.effect, 80)]
      [] OTHER -> newStats

\* line 90: spilloverEffects.forEach
RECURSIVE ApplySpillovers(_, _)
ApplySpillovers(newStats, spilloverEffects) ==
    IF spilloverEffects = <<>> THEN newStats
    ELSE ApplySpillovers(ApplySpillover(newStats, Head(spilloverEffects)),
                         Tail(spilloverEffects))

\* event effects written under every key: statsRecord[key] = (statsRecord[key] || 0) + effect
ApplyEventEffectsAnyKey(newStats, eventEffects) ==
    [k \in DOMAIN newStats \cup DOMAIN eventEffects |->
        IF k \in DOMAIN eventEffects /\ IsNumberField(k)
        THEN (IF k \in DOMAIN newStats THEN newStats[k] ELSE 0) + eventEffects[k]
        ELSE newStats[k]]

\* lines 117-122: direct event effects, only on numeric fields the state has
ApplyEventEffects(newStats, eventEffects) ==
    [k \in DOMAIN newStats |->
        IF k \in DOMAIN eventEffects /\ IsNumberField(k)
        THEN newStats[k] + eventEffects[k]
        ELSE newStats[k]]

\* the variation with a factor of 1.0: draws in [-0.5, +0.5)
JitterFullWidth(newStats, rnd) ==
    [newStats EXCEPT !.gdp_growth = @ + Mul(rnd - 500, 1000)]

\* lines 125-126: rnd is the Math.random() draw, 0 .. Scale-1
Jitter(newStats, rnd) ==
    [newStats EXCEPT !.gdp_growth = @ + Mul(rnd - 500, 500)]

\* the bounds with the upper limit of gdp_growth left out
ApplyBoundsGdpUnbounded(newStats) ==
    [newStats EXCEPT
       !.literacy_rate = Max(0, Min(100000, @)),
       !.unemployment = Max(500, Min(50000, @)),
       !.poverty_rate = Max(0, Min(90000, @)),
       !.life_expectancy = Max(45000, Min(90000, @)),
       !.gdp_growth = Max(0 - 10000, @),
       !.co2_emissions = Max(0, @),
       !.infant_mortality = Max(1000, Min(150000, @)),
       !.population = Max(100000000, @)]

\* lines 128-135
ApplyBounds(newStats) ==
    [newStats EXCEPT
       !.literacy_rate = Max(0, Min(100000, @)),
       !.unemployment = Max(500, Min(50000, @)),
       !.poverty_rate = Max(0, Min(90000, @)),
       !.life_expectancy = Max(45000, Min(90000, @)),
       !.gdp_growth = Max(0 - 10000, Min(15000, @)),
       !.co2_emissions = Max(0, @),
       !.infant_mortality = Max(1000, Min(150000, @)),
       !.population = Max(100000000, @)]

\* lines 138-144
PersistDecisions(newStats, decisions) ==
    [newStats EXCEPT
       !.agriculture_spending = DecisionValue(decisions, "agriculture", 3500),
       !.manufacturing_spending = DecisionValue(decisions, "manufacturing", 2000),
       !.services_spending = DecisionValue(decisions, "services", 1500),
       !.energy_spending = DecisionValue(decisions, "energy", 4000),
       !.technology_spending = DecisionValue(decisions, "technology", 1000),
       !.tariff_rate = DecisionValue(decisions, "tariffs", 15000)]

\* newStats right before the random variation (line 124)
BeforeJitter(currentStats, decisions, spilloverEffects, eventEffects) ==
    ApplyEventEffects(ApplySpillovers(PolicyDeltas(currentStats, decisions),
                                      spilloverEffects),
                      eventEffects)

\* newStats right before "Apply bounds" (line 127)
UnclampedStats(currentStats, decisions, spilloverEffects, eventEffects, rnd) ==
    Jitter(BeforeJitter(currentStats, decisions, spilloverEffects, eventEffects), rnd)

\* lines 125-147: the variation, the bounds and the policy memory, on the
\* newStats the event effects left
FromJitter(newStats, decisions, rnd) ==
    PersistDecisions(ApplyBounds(Jitter(newStats, rnd)), decisions)

applyPolicyEffects(currentStats, decisions, spilloverEffects, eventEffects, rnd) ==
    FromJitter(BeforeJitter(currentStats, decisions, spilloverEffects, eventEffects),
               decisions, rnd)

----------------------------------------------------------------------------
\* The policy levers and their default decisions

LeverIds == <<"tariffs", "ntbs", "connectivity", "trust", "agriculture",
              "manufacturing", "services", "energy", "technology">>

SpendingLevers == {"agriculture", "manufacturing", "services", "energy", "technology"}

LeverDefault(id) ==
    CASE id = "tariffs" -> 15000
      [] id = "ntbs" -> 60000
      [] id = "connectivity" -> 5000
      [] id = "trust" -> 50000
      [] id = "agriculture" -> 3500
      [] id = "manufacturing" -> 2000
      [] id = "services" -> 1500
      [] id = "energy" -> 4000
      [] id = "technology" -> 1000

LeverMin(id) == 0

LeverMax(id) ==
    CASE id = "tariffs" -> 50000
      [] id \in {"ntbs", "trust"} -> 100000
      [] OTHER -> 10000

createDefaultPolicyDecisions ==
    [i \in 1..Len(LeverIds) |->
        [id |-> LeverIds[i], value |-> LeverDefault(LeverIds[i]),
         min |-> LeverMin(LeverIds[i]), max |-> LeverMax(LeverIds[i])]]

\* setDecisions(prev => prev.map(d => d.id === id ? { ...d, value } : d))
SetDecision(decisions, id, value) ==
    [i \in 1..Len(decisions) |->
        IF decisions[i].id = id THEN [decisions[i] EXCEPT !.value = value]
        ELSE decisions[i]]

----------------------------------------------------------------------------
\* Initial country states (App.buildInitialStats)

\* the state buildInitialStats returns for the given indicator values
buildInitialStats(country, year, gdp, unemp, lit, life, pov, co2, pop, mort) ==
    [country |-> country, year |-> year,
     gdp_growth |-> gdp, unemployment |-> unemp, literacy_rate |-> lit,
     life_expectancy |-> life, poverty_rate |-> pov, co2_emissions |-> co2,
     population |-> pop, infant_mortality |-> mort,
     health_expenditure |-> Mul(life, 800),
     education_spending |-> 4000,
     infrastructure_investment |-> 5000,
     agriculture_spending |-> DecisionValue(createDefaultPolicyDecisions, "agriculture", 0),
     manufacturing_spending |-> DecisionValue(createDefaultPolicyDecisions, "manufacturing", 0),
     services_spending |-> DecisionValue(createDefaultPolicyDecisions, "services", 0),
     energy_spending |-> DecisionValue(createDefaultPolicyDecisions, "energy", 0),
     technology_spending |-> DecisionValue(createDefaultPolicyDecisions, "technology", 0),
     tourism_spending |-> DecisionValue(createDefaultPolicyDecisions, "tourism", 0),
     environment_spending |-> DecisionValue(createDefaultPolicyDecisions, "environment", 0),
     trade_liberalization |-> DecisionValue(createDefaultPolicyDecisions, "trade", 0),
     tariff_rate |-> DecisionValue(createDefaultPolicyDecisions, "tariffs", 0),
     agriculture_gdp_percent |-> 15000,
     manufacturing_gdp_percent |-> 20000,
     services_gdp_percent |-> 50000]

StartYear == 2023

\* indicator tables are external data: the fallback values of buildInitialStats,
\* and the two corners of the documented intervals
InitialStatsSet ==
    { buildInitialStats("India", StartYear, 3500, 5000, 70000, 65000, 20000, 2000,
                        1500000000, 30000),
      buildInitialStats("India", StartYear, 0 - 10000, 500, 0, 45000, 0, 0,
                        100000000, 1000),
      buildInitialStats("India", StartYear, 15000, 50000, 100000, 90000, 90000, 9000,
                        100000004, 150000) }

----------------------------------------------------------------------------
\* The trade graph (RegionalMatrix)

SOUTH_ASIAN_COUNTRIES ==
    <<"India", "Pakistan", "Bangladesh", "Sri Lanka", "Nepal", "Bhutan", "Maldives",
      "Afghanistan">>

Roster == {SOUTH_ASIAN_COUNTRIES[i] : i \in 1..Len(SOUTH_ASIAN_COUNTRIES)}

Edge(f, t, volume, tariff, coop) ==
    [from |-> f, to |-> t, tradeVolume |-> volume, tariffRate |-> tariff,
     cooperation |-> coop]

\* lines 249-279
INITIAL_TRADE_MATRIX ==
    << Edge("India", "Bangladesh", 8500, 8500, 75000),
       Edge("India", "Pakistan", 2100, 25000, 35000),
       Edge("India", "Sri Lanka", 4700, 12000, 80000),
       Edge("India", "Nepal", 6800, 5000, 85000),
       Edge("India", "Bhutan", 12500, 0, 95000),
       Edge("India", "Maldives", 4200, 10000, 70000),
       Edge("India", "Afghanistan", 1500, 15000, 45000),
       Edge("Bangladesh", "India", 1200, 12000, 75000),
       Edge("Bangladesh", "Pakistan", 200, 20000, 60000),
       Edge("Bangladesh", "Sri Lanka", 50, 15000, 65000),
       Edge("Bangladesh", "Nepal", 30, 18000, 70000),
       Edge("Pakistan", "India", 400, 30000, 35000),
       Edge("Pakistan", "Bangladesh", 100, 18000, 60000),
       Edge("Pakistan", "Sri Lanka", 300, 12000, 70000),
       Edge("Pakistan", "Afghanistan", 1800, 8000, 80000),
       Edge("Sri Lanka", "India", 1100, 10000, 80000),
       Edge("Sri Lanka", "Pakistan", 200, 14000, 70000),
       Edge("Nepal", "India", 700, 3000, 85000),
       Edge("Bhutan", "India", 400, 0, 95000),
       Edge("Maldives", "India", 20, 8000, 70000),
       Edge("Afghanistan", "Pakistan", 300, 10000, 80000),
       Edge("Afghanistan", "India", 100, 18000, 45000) >>

\* lines 281-286
INITIAL_REGIONAL_MATRIX ==
    [countries |-> SOUTH_ASIAN_COUNTRIES, tradeMatrix |-> INITIAL_TRADE_MATRIX,
     regionalEvents |-> <<>>, cooperationIndex |-> 65000]

\* policyChanges.key, 0 when the key is absent (both are falsy)
Change(policyChanges, key) ==
    IF key \in DOMAIN policyChanges THEN policyChanges[key] ELSE 0

\* lines 442-455
hasEnergyTrade(country1, country2) ==
    LET energyTradePairs == { <<"India", "Bhutan">>, <<"India", "Nepal">>,
                              <<"Pakistan", "Afghanistan">>, <<"India", "Bangladesh">> }
    IN  \E pair \in energyTradePairs :
            \/ (pair[1] = country1 /\ pair[2] = country2)
            \/ (pair[1] = country2 /\ pair[2] = country1)

\* the magnitude bucket of the types that compare Math.abs(effect)
AbsBucket(effect, high, medium) ==
    IF Abs(effect) > high THEN "high"
    ELSE IF Abs(effect) > medium THEN "medium" ELSE "low"

\* line 315: the trade_gdp bucket compares the signed effect
GdpBucket(effect) ==
    IF effect > 100 THEN "high" ELSE IF effect > 50 THEN "medium" ELSE "low"

PolicySpillover(source, target, type, effect, magnitude, timeframe) ==
    [sourceCountry |-> source, targetCountry |-> target, policyType |-> type,
     effect |-> effect, magnitude |-> magnitude, timeframe |-> timeframe]

\* the technology effect without the cooperation factor
TechnologySpilloverEffectNoCoop(change, cooperationFactor) == Mul(change, 150)

\* line 365
TechnologySpilloverEffect(change, cooperationFactor) ==
    Mul(Mul(change, cooperationFactor), 150)

\* line 308
GdpSpilloverEffect(change, tradeIntensity, cooperationFactor) ==
    Mul(Mul(Mul(change, tradeIntensity), cooperationFactor), 250)

\* lines 301-392: the spillovers of one trade edge touching sourceCountry
EdgeSpillovers(sourceCountry, policyChanges, trade) ==
    LET targetCountry == IF trade.from = sourceCountry THEN trade.to ELSE trade.from
        tradeIntensity == DivInt(trade.tradeVolume, 100)
        cooperationFactor == DivInt(trade.cooperation, 100)
        gdpEffect == GdpSpilloverEffect(Change(policyChanges, "gdp_growth"),
                                        tradeIntensity, cooperationFactor)
        infraSpillover == Mul(Mul(Change(policyChanges, "infrastructure_investment") - 5000,
                                  tradeIntensity), 120)
        envSpillover == Mul(Change(policyChanges, "co2_emissions"), 80)
        manufacturingSpillover == Mul(Mul(Change(policyChanges, "manufacturing_investment"),
                                          tradeIntensity), 100)
        techSpillover == TechnologySpilloverEffect(Change(policyChanges, "technology_investment"),
                                                   cooperationFactor)
        energySpillover == Mul(Change(policyChanges, "energy_investment"), 200)
    IN  (IF Change(policyChanges, "gdp_growth") # 0
         THEN <<PolicySpillover(sourceCountry, targetCountry, "trade_gdp", gdpEffect,
                                GdpBucket(gdpEffect), "short-term")>>
         ELSE <<>>)
        \o (IF Change(policyChanges, "infrastructure_investment") # 0
            THEN <<PolicySpillover(sourceCountry, targetCountry, "infrastructure",
                                   infraSpillover, AbsBucket(infraSpillover, 80, 40),
                                   "medium-term")>>
            ELSE <<>>)
        \o (IF Change(policyChanges, "co2_emissions") # 0
            THEN <<PolicySpillover(sourceCountry, targetCountry, "environment",
                                   envSpillover, AbsBucket(envSpillover, 50, 20),
                                   "long-term")>>
            ELSE <<>>)
        \o (IF Change(policyChanges, "manufacturing_investment") # 0
            THEN <<PolicySpillover(sourceCountry, targetCountry, "manufacturing",
                                   manufacturingSpillover,
                                   AbsBucket(manufacturingSpillover, 60, 30), "medium-term")>>
            ELSE <<>>)
        \o (IF Change(policyChanges, "technology_investment") # 0
            THEN <<PolicySpillover(sourceCountry, targetCountry, "technology",
                                   techSpillover, AbsBucket(techSpillover, 80, 40),
                                   "long-term")>>
            ELSE <<>>)
        \o (IF Change(policyChanges, "energy_investment") # 0
               /\ hasEnergyTrade(sourceCountry, targetCountry)
            THEN <<PolicySpillover(sourceCountry, targetCountry, "energy",
                                   energySpillover, AbsBucket(energySpillover, 100, 50),
                                   "immediate")>>
            ELSE <<>>)

\* lines 289-395: tradeMatrix.filter(...).forEach(...), from edge i on
RECURSIVE TradeSpilloversFrom(_, _, _, _)
TradeSpilloversFrom(sourceCountry, policyChanges, tradeMatrix, i) ==
    IF i > Len(tradeMatrix) THEN <<>>
    ELSE (IF tradeMatrix[i].from = sourceCountry \/ tradeMatrix[i].to = sourceCountry
          THEN EdgeSpillovers(sourceCountry, policyChanges, tradeMatrix[i])
          ELSE <<>>)
         \o TradeSpilloversFrom(sourceCountry, policyChanges, tradeMatrix, i + 1)

calculateTradeSpillovers(sourceCountry, policyChanges, tradeMatrix) ==
    TradeSpilloversFrom(sourceCountry, policyChanges, tradeMatrix, 1)

\* the decision ids the switch of simulateRegionalEffects copies (lines 163-203)
ExtractedIds ==
    {"education", "health", "infrastructure", "environment", "agriculture",
     "manufacturing", "services", "energy", "technology", "tourism", "trade",
     "tariff", "cooperation"}

\* lines 159-204: policyChanges[decision.id] = decision.value (the last one wins)
ExtractPolicyChanges(decisions) ==
    LET ids == {decisions[i].id : i \in 1..Len(decisions)} \cap ExtractedIds
    IN  [id \in ids |->
            LET last == CHOOSE i \in 1..Len(decisions) :
                          /\ decisions[i].id = id
                          /\ \A j \in 1..Len(decisions) : decisions[j].id = id => j <= i
            IN  decisions[last].value]

\* allDecisions[sourceCountry] || []
DecisionsOf(allDecisions, country) ==
    IF country \in DOMAIN allDecisions THEN allDecisions[country] ELSE <<>>

\* lines 157-219: the spillovers of the source countries order[i..], in order
RECURSIVE AllSpilloversFrom(_, _, _, _)
AllSpilloversFrom(order, allDecisions, tradeMatrix, i) ==
    IF i > Len(order) THEN <<>>
    ELSE calculateTradeSpillovers(order[i],
                                  ExtractPolicyChanges(DecisionsOf(allDecisions, order[i])),
                                  tradeMatrix)
         \o AllSpilloversFrom(order, allDecisions, tradeMatrix, i + 1)

\* the elements of seq that satisfy targetCountry = country, in order
RECURSIVE SpilloversTo(_, _)
SpilloversTo(seq, country) ==
    IF seq = <<>> THEN <<>>
    ELSE (IF Head(seq).targetCountry = country THEN <<Head(seq)>> ELSE <<>>)
         \o SpilloversTo(Tail(seq), country)

\* lines 150-222; order is Object.keys(allCountries). The result has a key
\* for every country that receives at least one spillover
simulateRegionalEffects(order, allDecisions, tradeMatrix) ==
    LET all == AllSpilloversFrom(order, allDecisions, tradeMatrix, 1)
        targets == {all[i].targetCountry : i \in 1..Len(all)}
    IN  [c \in targets |-> SpilloversTo(all, c)]

\* spilloversByCountry[countryName] || []
SpilloversFor(spilloversByCountry, country) ==
    IF country \in DOMAIN spilloversByCountry THEN spilloversByCountry[country] ELSE <<>>

----------------------------------------------------------------------------
\* RegionalEconomySimulator.updateTradeMatrix

\* policyChanges[country] || {}
ChangesOf(policyChanges, country) ==
    IF country \in DOMAIN policyChanges THEN policyChanges[country] ELSE <<>>

\* the trade volume limited to the 0-100 scale
ClampVolume100(v) == Max(0, Min(100000, v))

\* line 931: Math.max(0, newTradeVolume)
ClampVolume(v) == Max(0, v)

\* the edge returned with its end points exchanged and nothing else changed
UpdateEdgeReversed(trade, policyChanges) ==
    [trade EXCEPT !.from = trade.to, !.to = trade.from]

\* lines 900-934, for one edge
UpdateEdge(trade, policyChanges) ==
    LET sourceChanges == ChangesOf(policyChanges, trade.from)
        targetChanges == ChangesOf(policyChanges, trade.to)
        openness == DivInt(Change(sourceChanges, "trade_openness"), 100)
        volume1 == IF Change(sourceChanges, "trade_openness") # 0
                   THEN Mul(trade.tradeVolume, 1000 + Mul(openness, 100))
                   ELSE trade.tradeVolume
        tariff1 == IF Change(sourceChanges, "trade_openness") # 0
                   THEN Mul(trade.tariffRate, 1000 - Mul(openness, 200))
                   ELSE trade.tariffRate
        avgInfra == DivInt(Change(sourceChanges, "infrastructure_investment")
                           + Change(targetChanges, "infrastructure_investment"), 2)
        volume2 == IF Change(sourceChanges, "infrastructure_investment") # 0
                      \/ Change(targetChanges, "infrastructure_investment") # 0
                   THEN Mul(volume1, 1000 + Mul(avgInfra - 5000, 20))
                   ELSE volume1
        newCooperation == IF Change(sourceChanges, "cooperation_policy") # 0
                          THEN Max(0, Min(100000, trade.cooperation
                                          + Change(sourceChanges, "cooperation_policy")))
                          ELSE trade.cooperation
    IN  [trade EXCEPT !.tradeVolume = ClampVolume(volume2),
                      !.tariffRate = Max(0, Min(50000, tariff1)),
                      !.cooperation = newCooperation]

updateTradeMatrix(currentMatrix, policyChanges) ==
    [i \in 1..Len(currentMatrix) |-> UpdateEdge(currentMatrix[i], policyChanges)]

\* App.handleNextYear, lines 318-331: the changes handed to updateTradeMatrix
TradePolicyChanges(updatedDecisions) ==
    [country \in DOMAIN updatedDecisions |->
        LET ds == updatedDecisions[country]
            ids == {ds[i].id : i \in 1..Len(ds)}
            LastValue(id) == ds[CHOOSE i \in 1..Len(ds) :
                                  /\ ds[i].id = id
                                  /\ \A j \in 1..Len(ds) : ds[j].id = id => j <= i].value
        IN  [k \in {key \in {"infrastructure_investment", "cooperation_policy"} :
                      \/ (key = "infrastructure_investment" /\ "connectivity" \in ids)
                      \/ (key = "cooperation_policy" /\ "trust" \in ids)} |->
                IF k = "infrastructure_investment" THEN LastValue("connectivity")
                ELSE LastValue("trust") - 50000]]

----------------------------------------------------------------------------
\* One country's yearly update: the arguments handleNextYear hands to
\* applyPolicyEffects, and the call

MaxCalls == 2

Addr == {1, 2}

NoObject == [country |-> ""]

\* const newStats = currentStats: the same object
AliasStatsObject(ref) == ref

\* const newStats = { ...currentStats }: a fresh object
NewStatsObject(ref) == CHOOSE a \in Addr : a # ref

\* the default list with every spending lever set to v
AllSpending(v) ==
    [i \in 1..Len(createDefaultPolicyDecisions) |->
        IF createDefaultPolicyDecisions[i].id \in SpendingLevers
        THEN [createDefaultPolicyDecisions[i] EXCEPT !.value = v]
        ELSE createDefaultPolicyDecisions[i]]

DecisionLists ==
    { createDefaultPolicyDecisions,
      SetDecision(createDefaultPolicyDecisions, "tariffs", 0),
      SetDecision(createDefaultPolicyDecisions, "tariffs", 5000),
      SetDecision(createDefaultPolicyDecisions, "tariffs", 50000),
      SetDecision(SetDecision(createDefaultPolicyDecisions, "connectivity", 10000), "trust", 100000),
      SetDecision(SetDecision(SetDecision(createDefaultPolicyDecisions, "connectivity", 0),
                              "trust", 0),
                  "ntbs", 100000),
      AllSpending(10000),
      AllSpending(0),
      <<>> }

Spillover(type, effect) == [policyType |-> type, effect |-> effect]

\* inbound spillover list and event effects of one call
InboundSets ==
    { <<  <<>>, <<>>  >>,
      <<  <<Spillover("technology", 200), Spillover("trade_gdp", 100),
            Spillover("infrastructure", 0 - 500), Spillover("environment", 0 - 5000)>>,
          [gdp_growth |-> 0 - 500, agriculture_gdp_percent |-> 0 - 1000,
           poverty_rate |-> 1200]  >>,
      <<  <<Spillover("manufacturing", 60000), Spillover("energy", 800)>>,
          [trust |-> 10000, connectivity |-> 500, population |-> 0 - 5,
           technology_spending |-> 500, infrastructure_investment |-> 0 - 1500]  >> }

RandomDraws == {0, 999}

IdleSpill ==
    /\ spillPc = "idle"
    /\ sourceArg = ""
    /\ policyChangesArg = <<>>
    /\ tradeMatrixArg = <<>>
    /\ allDecisionsArg = <<>>
    /\ spilloversRet = <<>>
    /\ byCountryRet = <<>>

IdleTrade ==
    /\ liveMatrix = <<>>
    /\ tradeYears = 0

IdlePolicy ==
    /\ heldDecisions = <<>>
    /\ heldPlayer = ""
    /\ decisionsPc = "held"
    /\ decisionYears = 0

IdleEvents ==
    /\ eventsPc = "idle"
    /\ eventsCall = <<>>
    /\ eventsRet = <<>>

IdleApply ==
    /\ heap = [a \in Addr |-> NoObject]
    /\ statsRef = 1
    /\ applyPc = "ret"
    /\ argRef = 0
    /\ retRef = 0
    /\ decisionsArg = <<>>
    /\ spilloverArg = <<>>
    /\ eventArg = <<>>
    /\ rndDraw = 0
    /\ calls = 0


\* null, and every empty array or object
NullData == <<>>

\* App.tsx lines 29-47: the component's state before anything is loaded
IdleGame ==
    /\ gameState = [countries |-> <<>>, playerCountry |-> "",
                    regionalMatrix |-> INITIAL_REGIONAL_MATRIX,
                    spilloverEffects |-> <<>>, detailedSpillovers |-> <<>>,
                    year |-> 2023, gameActive |-> FALSE]
    /\ allIndicators = NullData
    /\ tradeProductsData = NullData
    /\ tradeDataLoaded = FALSE
    /\ newEvents = <<>>
    /\ playerDecisions = createDefaultPolicyDecisions
    /\ historicalStats = <<>>
    /\ gamePhase = "select"
    /\ finalScore = 0
    /\ allCountriesDecisions = <<>>
    /\ jitterDraws = <<>>

IdleOutsideScore == IdleApply /\ IdleSpill /\ IdleTrade /\ IdleGame /\ IdlePolicy /\ IdleEvents

\* ---- PolicySimulator.calculateScore ----

\* the bonus granted when every weighted delta is positive
BalanceBonusStrict(improvements) ==
    IF \A i \in 1..Len(improvements) : improvements[i] > 0 THEN 100000 ELSE 0

\* line 240
BalanceBonus(improvements) ==
    IF \A i \in 1..Len(improvements) : improvements[i] > 0 - 50000 THEN 100000 ELSE 0

\* line 243
ExtremePenalty(improvements) ==
    IF \E i \in 1..Len(improvements) : improvements[i] < 0 - 100000 THEN 0 - 200000 ELSE 0

RECURSIVE SumSeq(_)
SumSeq(seq) == IF seq = <<>> THEN 0 ELSE Head(seq) + SumSeq(Tail(seq))

\* the total returned as it is, without the limits
ClampScoreNone(total) == total

\* line 245: Math.max(0, Math.min(1000, ...))
ClampScore(total) == Max(0, Min(1000000, total))

\* lines 226-245, before the limits are applied
UnclampedScore(final, initial) ==
    LET improvements ==
            << (final.gdp_growth - initial.gdp_growth) * 15,
               (final.literacy_rate - initial.literacy_rate) * 3,
               (final.life_expectancy - initial.life_expectancy) * 8,
               (initial.unemployment - final.unemployment) * 5,
               (initial.poverty_rate - final.poverty_rate) * 4,
               (initial.co2_emissions - final.co2_emissions) * 15,
               (initial.infant_mortality - final.infant_mortality) * 2 >>
        totalScore == SumSeq(improvements)
    IN  totalScore + 400000 + BalanceBonus(improvements) + ExtremePenalty(improvements)

calculateScore(final, initial) == ClampScore(UnclampedScore(final, initial))

\* indicator values a final or initial state is drawn from: the ends of the
\* documented interval and the fallback value of buildInitialStats
GdpValues == {0 - 10000, 3500, 15000}
UnemploymentValues == {500, 5000, 50000}
LiteracyValues == {0, 70000, 100000}
LifeValues == {45000, 65000, 90000}
PovertyValues == {0, 20000, 90000}
Co2Values == {0, 2000, 9000}
MortalityValues == {1000, 30000, 150000}

ScoreStates ==
    { buildInitialStats("India", StartYear, g, u, l, le, p, c, 1500000000, m) :
        g \in GdpValues, u \in UnemploymentValues, l \in LiteracyValues,
        le \in LifeValues, p \in PovertyValues, c \in Co2Values, m \in MortalityValues }

IdleScore ==
    /\ finalStats = NoObject
    /\ initialStats = NoObject
    /\ score = 0 - 1

InitScore ==
    /\ finalStats \in ScoreStates
    /\ initialStats \in InitialStatsSet \cup {finalStats}
    /\ score = 0 - 1
    /\ IdleOutsideScore

\* handleFinishGame, line 368
CalculateScoreCall ==
    /\ score = 0 - 1
    /\ score' = calculateScore(finalStats, initialStats)
    /\ UNCHANGED <<finalStats, initialStats>>
    /\ UNCHANGED notScoreVars

NextScore == CalculateScoreCall

SpecScore == InitScore /\ [][NextScore]_vars

\* ---- the yearly update of one country ----

IdleOutsideApply == IdleScore /\ IdleSpill /\ IdleTrade /\ IdleGame /\ IdlePolicy /\ IdleEvents

InitApply ==
    /\ \E s \in InitialStatsSet : heap = [a \in Addr |-> IF a = 1 THEN s ELSE NoObject]
    /\ statsRef = 1
    /\ applyPc = "ret"
    /\ argRef = 0
    /\ retRef = 0
    /\ decisionsArg = <<>>
    /\ spilloverArg = <<>>
    /\ eventArg = <<>>
    /\ rndDraw = 0
    /\ calls = 0
    /\ IdleOutsideApply

\* handleNextYear, steps 1-6a for one country: the arguments of the call
PrepareCall ==
    /\ applyPc = "ret"
    /\ calls < MaxCalls
    /\ \E d \in DecisionLists, inb \in InboundSets :
          /\ decisionsArg' = d
          /\ spilloverArg' = inb[1]
          /\ eventArg' = inb[2]
    /\ argRef' = statsRef
    /\ applyPc' = "args"
    /\ UNCHANGED <<heap, statsRef, retRef, rndDraw, calls>>
    /\ UNCHANGED notApplyVars

\* handleNextYear, step 6b: the call, newStats.year = year + 1, and the new
\* object becoming the country's state
ApplyCall ==
    /\ applyPc = "args"
    /\ \E rnd \in RandomDraws :
          LET new == NewStatsObject(argRef)
              newStats == applyPolicyEffects(heap[argRef], decisionsArg, spilloverArg,
                                             eventArg, rnd)
          IN  /\ heap' = [heap EXCEPT ![new] = [newStats EXCEPT !.year = heap[argRef].year + 1]]
              /\ retRef' = new
              /\ statsRef' = new
              /\ rndDraw' = rnd
    /\ calls' = calls + 1
    /\ applyPc' = "ret"
    /\ UNCHANGED <<argRef, decisionsArg, spilloverArg, eventArg>>
    /\ UNCHANGED notApplyVars

NextApply == PrepareCall \/ ApplyCall

SpecApply == InitApply /\ [][NextApply]_vars

----------------------------------------------------------------------------
\* The spillover propagator on its own: calculateTradeSpillovers for one source
\* country, and simulateRegionalEffects for the decisions of all countries

\* every country lowers cooperation by 50 (trust = 0) for one year
CooperationCollapse == [c \in Roster |-> [cooperation_policy |-> 0 - 50000]]

\* trade matrices the game can hold: the initial one, and the one after a year
\* in which every country set trust to 0
SpillMatrices ==
    { INITIAL_TRADE_MATRIX, updateTradeMatrix(INITIAL_TRADE_MATRIX, CooperationCollapse) }

SpilloverKeys == {"gdp_growth", "infrastructure_investment", "co2_emissions",
                  "manufacturing_investment", "technology_investment", "energy_investment"}

ChangeValues == {0 - 2000, 0, 3000}

PolicyChangeMaps == [SpilloverKeys -> ChangeValues]

\* the decision list of the earlier lever set
LegacyDecisions ==
    << [id |-> "education", value |-> 5000, min |-> 0, max |-> 10000],
       [id |-> "infrastructure", value |-> 7000, min |-> 0, max |-> 10000],
       [id |-> "environment", value |-> 3000, min |-> 0, max |-> 10000],
       [id |-> "manufacturing", value |-> 4000, min |-> 0, max |-> 10000],
       [id |-> "technology", value |-> 2000, min |-> 0, max |-> 10000],
       [id |-> "energy", value |-> 5000, min |-> 0, max |-> 10000] >>

\* every country on the default list, but one
AllDecisionSets ==
    { [c \in Roster |-> IF c = focus THEN d ELSE createDefaultPolicyDecisions] :
        focus \in Roster, d \in DecisionLists \cup {LegacyDecisions} }

InitSpill ==
    /\ tradeMatrixArg \in SpillMatrices
    /\ \/ /\ spillPc = "direct"
          /\ sourceArg \in Roster
          /\ policyChangesArg \in PolicyChangeMaps
          /\ allDecisionsArg = <<>>
       \/ /\ spillPc = "regional"
          /\ sourceArg = ""
          /\ policyChangesArg = <<>>
          /\ allDecisionsArg \in AllDecisionSets
    /\ spilloversRet = <<>>
    /\ byCountryRet = <<>>
    /\ IdleApply /\ IdleScore /\ IdleTrade /\ IdleGame /\ IdlePolicy /\ IdleEvents

CalculateTradeSpilloversCall ==
    /\ spillPc = "direct"
    /\ spilloversRet' = calculateTradeSpillovers(sourceArg, policyChangesArg, tradeMatrixArg)
    /\ spillPc' = "directDone"
    /\ UNCHANGED <<sourceArg, policyChangesArg, tradeMatrixArg, allDecisionsArg,
                   byCountryRet>>
    /\ UNCHANGED notSpillVars

SimulateRegionalEffectsCall ==
    /\ spillPc = "regional"
    /\ byCountryRet' =
          simulateRegionalEffects(SOUTH_ASIAN_COUNTRIES, allDecisionsArg, tradeMatrixArg)
    /\ spillPc' = "regionalDone"
    /\ UNCHANGED <<sourceArg, policyChangesArg, tradeMatrixArg, allDecisionsArg,
                   spilloversRet>>
    /\ UNCHANGED notSpillVars

NextSpill == CalculateTradeSpilloversCall \/ SimulateRegionalEffectsCall

SpecSpill == InitSpill /\ [][NextSpill]_vars

----------------------------------------------------------------------------
\* The trade matrix on its own: one updateTradeMatrix call per simulated year

MaxTradeYears == 23

\* the same connectivity and trust decision in every country
UniformChanges(connectivity, trust) ==
    TradePolicyChanges([c \in Roster |->
        SetDecision(SetDecision(createDefaultPolicyDecisions, "connectivity", connectivity),
                    "trust", trust)])

\* the connectivity and trust decisions of one year
YearlyTradeChanges ==
    { UniformChanges(5000, 50000), UniformChanges(10000, 50000),
      UniformChanges(5000, 70000), UniformChanges(10000, 30000) }

InitTrade ==
    /\ liveMatrix = INITIAL_TRADE_MATRIX
    /\ tradeYears = 0
    /\ IdleApply /\ IdleScore /\ IdleSpill /\ IdleGame /\ IdlePolicy /\ IdleEvents

\* handleNextYear, steps 7-8: the trade matrix of the next year
UpdateTradeMatrixCall ==
    /\ tradeYears < MaxTradeYears
    /\ \E policyChanges \in YearlyTradeChanges :
          liveMatrix' = updateTradeMatrix(liveMatrix, policyChanges)
    /\ tradeYears' = tradeYears + 1
    /\ UNCHANGED notTradeVars

NextTrade == UpdateTradeMatrixCall

SpecTrade == InitTrade /\ [][NextTrade]_vars

----------------------------------------------------------------------------
\* RegionalEconomySimulator.generateRegionalEvents

\* lines 835-851 (name and description are display text)
eventPool ==
    << [id |-> "monsoon_floods", probability |-> 80, targets |-> <<"Bangladesh", "India", "Pakistan">>,
         region_wide |-> FALSE, unique |-> FALSE,
         effects |-> [gdp_growth |-> 0 - 600, poverty_rate |-> 1500, infrastructure_investment |-> 0 - 1000]],
       [id |-> "cyclone_bay_of_bengal", probability |-> 60, targets |-> <<"Bangladesh", "India", "Sri Lanka">>,
         region_wide |-> FALSE, unique |-> FALSE,
         effects |-> [gdp_growth |-> 0 - 800, population |-> 0 - 5, infrastructure_investment |-> 0 - 1500]],
       [id |-> "drought", probability |-> 50, targets |-> <<"Pakistan", "India", "Afghanistan">>,
         region_wide |-> FALSE, unique |-> FALSE,
         effects |-> [gdp_growth |-> 0 - 500, agriculture_gdp_percent |-> 0 - 1000, poverty_rate |-> 1200]],
       [id |-> "global_recession", probability |-> 70, targets |-> <<>>,
         region_wide |-> TRUE, unique |-> FALSE,
         effects |-> [gdp_growth |-> 0 - 1000, unemployment |-> 1500]],
       [id |-> "oil_price_shock", probability |-> 80, targets |-> <<>>,
         region_wide |-> TRUE, unique |-> FALSE,
         effects |-> [gdp_growth |-> 0 - 400, co2_emissions |-> 0 - 100]],
       [id |-> "fdi_boom", probability |-> 50, targets |-> <<"India", "Bangladesh">>,
         region_wide |-> FALSE, unique |-> TRUE,
         effects |-> [gdp_growth |-> 800, unemployment |-> 0 - 500, technology_spending |-> 500]],
       [id |-> "regional_cooperation_summit", probability |-> 150, targets |-> <<>>,
         region_wide |-> TRUE, unique |-> FALSE,
         effects |-> [trust |-> 10000, connectivity |-> 500]],
       [id |-> "border_tensions", probability |-> 80, targets |-> <<"India", "Pakistan">>,
         region_wide |-> FALSE, unique |-> FALSE,
         effects |-> [trust |-> 0 - 15000, gdp_growth |-> 0 - 300]],
       [id |-> "health_breakthrough", probability |-> 40, targets |-> <<"India", "Bangladesh", "Sri Lanka">>,
         region_wide |-> FALSE, unique |-> TRUE,
         effects |-> [life_expectancy |-> 500, health_expenditure |-> 200]],
       [id |-> "himalayan_earthquake", probability |-> 30, targets |-> <<"Nepal", "Bhutan", "India">>,
         region_wide |-> FALSE, unique |-> TRUE,
         effects |-> [gdp_growth |-> 0 - 1200, infrastructure_investment |-> 0 - 2500, poverty_rate |-> 2000]] >>

UniqueEventIds == {eventPool[i].id : i \in {j \in 1..Len(eventPool) : eventPool[j].unique}}

\* the pool with nothing filtered out
PotentialEventsUnfiltered(history) == eventPool

\* lines 853-854
PotentialEvents(history) ==
    LET occurredEventIds == {history[i].id : i \in 1..Len(history)}
    IN  SelectSeq(eventPool, LAMBDA event : ~(event.unique /\ event.id \in occurredEventIds))

\* line 857: the comparator of the sort is random, the result is some
\* permutation; here the rotation by k places
Shuffle(events, k) ==
    [i \in 1..Len(events) |-> events[((i - 1 + k) % Len(events)) + 1]]

\* lines 860-867
EventProbability(event, cooperationIndex) ==
    LET p1 == IF event.id = "regional_cooperation_summit"
              THEN Mul(event.probability, DivInt(cooperationIndex, 50))
              ELSE event.probability
    IN  IF event.id = "border_tensions"
        THEN Mul(p1, DivInt(100000 - cooperationIndex, 50))
        ELSE p1

\* lines 859-879: index of the first event whose draw triggers it, 0 if none
RECURSIVE FirstTriggered(_, _, _, _)
FirstTriggered(events, draws, cooperationIndex, i) ==
    IF i > Len(events) THEN 0
    ELSE IF draws[i] < EventProbability(events[i], cooperationIndex) THEN i
    ELSE FirstTriggered(events, draws, cooperationIndex, i + 1)

\* a stability event in every year without a catalog event
StabilityYearAlways(year) == TRUE

\* line 882: if (year % 3 === 0)
StabilityYear(year) == year % 3 = 0

\* a gate that lets the call proceed for the draws below 0.4 only
GateClosesFrom40(gateDraw) == gateDraw >= 400

\* line 831: if (Math.random() > 0.6) return []
GateCloses(gateDraw) == gateDraw > 600

\* lines 829-894. gateDraw is the draw of line 831, k the permutation of
\* line 857, draws[i] the draw of line 869 for the i-th event tried
generateRegionalEvents(year, cooperationIndex, history, gateDraw, k, draws) ==
    IF GateCloses(gateDraw) THEN <<>>
    ELSE LET potentialEvents == Shuffle(PotentialEvents(history), k)
             hit == FirstTriggered(potentialEvents, draws, cooperationIndex, 1)
         IN  IF hit # 0
             THEN << [id |-> potentialEvents[hit].id, year |-> year,
                      effects |-> potentialEvents[hit].effects,
                      targetCountries |-> IF potentialEvents[hit].region_wide
                                          THEN SOUTH_ASIAN_COUNTRIES
                                          ELSE potentialEvents[hit].targets] >>
             ELSE IF StabilityYear(year)
             THEN << [id |-> "no_major_event", year |-> year,
                      effects |-> [gdp_growth |-> 100],
                      targetCountries |-> SOUTH_ASIAN_COUNTRIES] >>
             ELSE <<>>

----------------------------------------------------------------------------
\* TradeProductsLoader and RegionalEconomySimulator.calculateDetailedSpillovers

\* BilateralTradeProducts.json is external data: a few product lists
BilateralTradeProducts ==
    [imports |-> [India |-> [Bangladesh |-> <<"Textiles", "Jute">>,
                             Bhutan |-> <<"Electricity">>],
                  Nepal |-> [India |-> <<"Petroleum products", "Rice">>]],
     exports |-> [India |-> [Bangladesh |-> <<"Cotton", "Machinery", "Textiles">>,
                             Nepal |-> <<"Petroleum products", "Rice">>],
                  Bhutan |-> [India |-> <<"Electricity">>]]]

\* the keys k the simulator looks for with product.toLowerCase().includes(k)
\* that the product name contains
ProductKeys(product) ==
    CASE product = "Textiles" -> {"textile", "textiles"}
      [] product = "Jute" -> {"jute"}
      [] product = "Electricity" -> {"electricity"}
      [] product = "Petroleum products" -> {"petroleum"}
      [] product = "Rice" -> {"rice"}
      [] product = "Cotton" -> {"cotton"}
      [] product = "Machinery" -> {"machinery"}
      [] OTHER -> {}

\* data[a]?.[b] || []
ProductList(table, a, b) ==
    IF a \in DOMAIN table THEN (IF b \in DOMAIN table[a] THEN table[a][b] ELSE <<>>)
    ELSE <<>>

\* [...new Set(seq)]: the first occurrence of every element, in order
RECURSIVE Dedupe(_)
Dedupe(seq) ==
    IF seq = <<>> THEN <<>>
    ELSE LET front == Dedupe(SubSeq(seq, 1, Len(seq) - 1))
             last == seq[Len(seq)]
         IN  IF \E i \in 1..Len(front) : front[i] = last THEN front
             ELSE Append(front, last)

\* TradeProductsLoader.ts lines 68-77 (the field total); data is tradeProductsData
getMainTradeProducts(data, country1, country2) ==
    Dedupe(ProductList(data.imports, country1, country2)
           \o ProductList(data.exports, country1, country2))

\* lines 641-666
productPolicyMap ==
    << <<"textile", {"manufacturing", "trade", "services"}>>,
       <<"garment", {"manufacturing", "trade", "services"}>>,
       <<"apparel", {"manufacturing", "trade", "services"}>>,
       <<"pharmaceuticals", {"health", "manufacturing", "technology"}>>,
       <<"machinery", {"manufacturing", "technology", "infrastructure"}>>,
       <<"automobiles", {"manufacturing", "technology", "infrastructure"}>>,
       <<"food", {"agriculture", "trade"}>>,
       <<"rice", {"agriculture", "trade"}>>,
       <<"tea", {"agriculture", "trade"}>>,
       <<"cotton", {"agriculture", "manufacturing"}>>,
       <<"petroleum", {"energy", "trade", "environment"}>>,
       <<"hydroelectric", {"energy", "infrastructure", "environment"}>>,
       <<"electricity", {"energy", "infrastructure", "environment"}>>,
       <<"cement", {"manufacturing", "infrastructure"}>>,
       <<"chemicals", {"manufacturing", "health"}>>,
       <<"fish", {"agriculture", "trade"}>>,
       <<"timber", {"environment", "trade"}>>,
       <<"gems", {"trade", "services"}>>,
       <<"handicrafts", {"services", "tourism"}>>,
       <<"jute", {"agriculture", "manufacturing", "trade"}>>,
       <<"leather", {"manufacturing", "trade"}>>,
       <<"spices", {"agriculture", "trade"}>>,
       <<"rubber", {"agriculture", "manufacturing"}>>,
       <<"coconut", {"agriculture", "trade"}>> >>

\* lines 640-678
isPolicyRelevantToProduct(policyChanges, product) ==
    LET keys == ProductKeys(product)
        changed == DOMAIN policyChanges
    IN  \E i \in 1..Len(productPolicyMap) :
            /\ productPolicyMap[i][1] \in keys
            /\ productPolicyMap[i][2] \cap changed # {}

\* lines 682-703
productCategoryMap ==
    << <<"textiles", "manufacturing">>, <<"pharmaceuticals", "health">>,
       <<"machinery", "manufacturing">>, <<"food", "agriculture">>,
       <<"rice", "agriculture">>, <<"tea", "agriculture">>, <<"cotton", "agriculture">>,
       <<"petroleum", "energy">>, <<"electricity", "energy">>,
       <<"cement", "manufacturing">>, <<"chemicals", "manufacturing">>,
       <<"fish", "agriculture">>, <<"timber", "environment">>, <<"gems", "services">>,
       <<"handicrafts", "services">>, <<"jute", "agriculture">>,
       <<"leather", "manufacturing">>, <<"spices", "agriculture">>,
       <<"rubber", "agriculture">>, <<"coconut", "agriculture">> >>

\* lines 680-712
getPolicyCategory(policyChanges, product) ==
    LET keys == ProductKeys(product)
        hits == {i \in 1..Len(productCategoryMap) : productCategoryMap[i][1] \in keys}
    IN  IF hits = {} THEN "trade"
        ELSE productCategoryMap[CHOOSE i \in hits : \A j \in hits : i <= j][2]

\* lines 714-762
calculateProductSpillover(policyChanges, product, tradeVolume, sourceCountryStats) ==
    LET baseEffect == DivInt(tradeVolume, 100)
        manufacturingChange == OrDefault(Change(policyChanges, "manufacturing"), 0)
                               - OrDefault(sourceCountryStats.manufacturing_spending, 2000)
        servicesChange == OrDefault(Change(policyChanges, "services"), 0)
                          - OrDefault(sourceCountryStats.services_spending, 1500)
        healthChange == OrDefault(Change(policyChanges, "health"), 0)
                        - OrDefault(sourceCountryStats.health_expenditure, 3000)
        infraChange == OrDefault(Change(policyChanges, "infrastructure"), 0)
                       - OrDefault(sourceCountryStats.infrastructure_investment, 5000)
        techChange == OrDefault(Change(policyChanges, "technology"), 0)
                      - OrDefault(sourceCountryStats.technology_spending, 1000)
        agricultureChange == OrDefault(Change(policyChanges, "agriculture"), 0)
                             - OrDefault(sourceCountryStats.agriculture_spending, 3500)
        energyChange == OrDefault(Change(policyChanges, "energy"), 0)
                        - OrDefault(sourceCountryStats.energy_spending, 4000)
        tourismChange == OrDefault(Change(policyChanges, "tourism"), 0)
                         - OrDefault(sourceCountryStats.tourism_spending, 800)
        tradeChange == OrDefault(Change(policyChanges, "trade"), 50000)
                       - OrDefault(sourceCountryStats.trade_liberalization, 50000)
        included == ProductKeys(product)
        Has(keys) == keys \cap included # {}
    IN  IF Has({"textile", "cotton", "garment", "apparel"})
        THEN Mul(Mul(manufacturingChange + servicesChange, baseEffect), 150)
        ELSE IF Has({"pharmaceutical", "chemical"})
        THEN Mul(Mul(healthChange + manufacturingChange, baseEffect), 200)
        ELSE IF Has({"machinery", "equipment", "automobiles", "steel"})
        THEN Mul(Mul(infraChange + techChange, baseEffect), 180)
        ELSE IF Has({"food", "rice", "tea", "fish", "spice", "fruits", "vegetable"})
        THEN Mul(Mul(agricultureChange, baseEffect), 250)
        ELSE IF Has({"petroleum", "hydroelectric", "electricity", "gas", "energy"})
        THEN Mul(Mul(energyChange, baseEffect), 250)
        ELSE IF Has({"handicraft", "tourism", "gem"})
        THEN Mul(Mul(tourismChange + servicesChange, baseEffect), 150)
        ELSE IF Has({"cement", "construction"})
        THEN Mul(Mul(infraChange, baseEffect), 200)
        ELSE Mul(Mul(DivInt(tradeChange, 100), baseEffect), 200)

\* lines 576-605
calculateGeneralSpillover(policyType, newValue, tradeVolume, sourceCountryStats) ==
    LET baseEffect == DivInt(tradeVolume, 100)
    IN  CASE policyType = "infrastructure" ->
               Mul(Mul(baseEffect, newValue
                       - OrDefault(sourceCountryStats.infrastructure_investment, 5000)), 30)
          [] policyType = "education" ->
               Mul(Mul(baseEffect, newValue
                       - OrDefault(sourceCountryStats.education_spending, 4000)), 15)
          [] policyType = "health" ->
               Mul(Mul(baseEffect, newValue
                       - OrDefault(sourceCountryStats.health_expenditure, 3000)), 10)
          [] policyType = "trade" ->
               Mul(Mul(baseEffect, DivInt(newValue
                       - OrDefault(sourceCountryStats.trade_liberalization, 50000), 100)), 200)
          [] policyType = "environment" ->
               Mul(Mul(baseEffect, newValue
                       - OrDefault(sourceCountryStats.environment_spending, 2000)), 20)
          [] OTHER -> 0

\* lines 484-502 and 514-530, without the display fields
DetailedSpillover(source, target, subject, category, magnitude, products) ==
    [id |-> <<source, target, subject>>, sourceCountry |-> source,
     targetCountry |-> target, policyCategory |-> category, magnitude |-> magnitude,
     tradeProducts |-> products]

\* lines 478-505: the product spillovers of one trade edge, from product i on
RECURSIVE ProductSpilloversFrom(_, _, _, _, _, _, _)
ProductSpilloversFrom(source, target, policyChanges, tradeVolume, stats, products, i) ==
    IF i > Len(products) THEN <<>>
    ELSE LET product == products[i]
             magnitude == calculateProductSpillover(policyChanges, product, tradeVolume,
                                                    stats)
         IN  (IF isPolicyRelevantToProduct(policyChanges, product) /\ Abs(magnitude) > 10
              THEN <<DetailedSpillover(source, target, product,
                                       getPolicyCategory(policyChanges, product),
                                       magnitude, <<product>>)>>
              ELSE <<>>)
             \o ProductSpilloversFrom(source, target, policyChanges, tradeVolume,
                                      stats, products, i + 1)

\* lines 509-533: the general spillovers of one trade edge; entries is
\* Object.entries(policyChanges) as a list of <<policyType, change>>
RECURSIVE GeneralSpilloversFrom(_, _, _, _, _, _)
GeneralSpilloversFrom(source, target, entries, tradeVolume, sourceCountryStats, i) ==
    IF i > Len(entries) THEN <<>>
    ELSE LET policyType == entries[i][1]
             change == entries[i][2]
             magnitude == calculateGeneralSpillover(policyType, change, tradeVolume,
                                                    sourceCountryStats)
         IN  (IF Abs(change) > 100 /\ Abs(magnitude) > 10
              THEN <<DetailedSpillover(source, target, policyType, policyType,
                                       magnitude, <<>>)>>
              ELSE <<>>)
             \o GeneralSpilloversFrom(source, target, entries, tradeVolume,
                                      sourceCountryStats, i + 1)

\* App.tsx lines 277-280: playerDecisionsArr.reduce((acc, d) => ...), the
\* object id -> value of the first n decisions
RECURSIVE DecisionsObjectOf(_, _)
DecisionsObjectOf(decisions, n) ==
    IF n = 0 THEN <<>>
    ELSE (decisions[n].id :> decisions[n].value) @@ DecisionsObjectOf(decisions, n - 1)

DecisionsObject(decisions) == DecisionsObjectOf(decisions, Len(decisions))

\* Object.entries(policyChanges) for the object built from decisions: the
\* keys in insertion order
RECURSIVE DecisionEntries(_, _, _)
DecisionEntries(decisions, policyChanges, i) ==
    IF i > Len(decisions) THEN <<>>
    ELSE (IF \E j \in 1..(i - 1) : decisions[j].id = decisions[i].id THEN <<>>
          ELSE << <<decisions[i].id, policyChanges[decisions[i].id]>> >>)
         \o DecisionEntries(decisions, policyChanges, i + 1)

\* lines 457-537, from edge i on; entries is Object.entries(policyChanges)
RECURSIVE DetailedSpilloversFrom(_, _, _, _, _, _, _)
DetailedSpilloversFrom(data, sourceCountry, policyChanges, entries, tradeMatrix, stats, i) ==
    IF i > Len(tradeMatrix) THEN <<>>
    ELSE LET trade == tradeMatrix[i]
             targetCountry == IF trade.from = sourceCountry THEN trade.to ELSE trade.from
         IN  (IF trade.from = sourceCountry \/ trade.to = sourceCountry
              THEN ProductSpilloversFrom(sourceCountry, targetCountry, policyChanges,
                       trade.tradeVolume, stats,
                       getMainTradeProducts(data, sourceCountry, targetCountry), 1)
                   \o GeneralSpilloversFrom(sourceCountry, targetCountry, entries,
                          trade.tradeVolume, stats, 1)
              ELSE <<>>)
             \o DetailedSpilloversFrom(data, sourceCountry, policyChanges, entries,
                                       tradeMatrix, stats, i + 1)

\* decisions is the list the caller builds policyChanges from
calculateDetailedSpillovers(data, sourceCountry, decisions, tradeMatrix, sourceCountryStats) ==
    LET policyChanges == DecisionsObject(decisions)
    IN  DetailedSpilloversFrom(data, sourceCountry, policyChanges,
                               DecisionEntries(decisions, policyChanges, 1), tradeMatrix,
                               sourceCountryStats, 1)

----------------------------------------------------------------------------
\* The App component: loading, country selection, decisions, the yearly loop,
\* the final report and the restart

\* number of years one game may advance
MaxYears == 2

\* the indicator tables are external data: per country gdp, unemployment,
\* literacy, life expectancy, poverty, co2, population and infant mortality;
\* the fallback values of buildInitialStats, a slow economy and high unemployment
IndicatorTable ==
    [c \in Roster |->
        CASE c = "Afghanistan" -> <<1000, 5000, 70000, 65000, 20000, 2000, 1500000000, 30000>>
          [] c = "Nepal" -> <<3500, 10000, 70000, 65000, 20000, 2000, 1500000000, 30000>>
          [] OTHER -> <<3500, 5000, 70000, 65000, 20000, 2000, 1500000000, 30000>>]

\* App.tsx lines 114-178 on the loaded tables
BuildInitialStatsOf(indicators, country, year) ==
    LET v == indicators[country]
    IN  buildInitialStats(country, year, v[1], v[2], v[3], v[4], v[5], v[6], v[7], v[8])

\* lines 76-91, 0 where the table has no entry
getCountryPolicyVariations(countryName, id) ==
    CASE countryName = "India" /\ id = "connectivity" -> 2000
      [] countryName = "India" /\ id = "trust" -> 5000
      [] countryName = "Pakistan" /\ id = "tariffs" -> 5000
      [] countryName = "Pakistan" /\ id = "trust" -> 0 - 10000
      [] countryName = "Bangladesh" /\ id = "connectivity" -> 3000
      [] countryName = "Bangladesh" /\ id = "ntbs" -> 0 - 10000
      [] countryName = "Sri Lanka" /\ id = "tariffs" -> 0 - 3000
      [] countryName = "Sri Lanka" /\ id = "trust" -> 10000
      [] countryName = "Nepal" /\ id = "connectivity" -> 0 - 2000
      [] countryName = "Nepal" /\ id = "trust" -> 15000
      [] countryName = "Bhutan" /\ id = "trust" -> 20000
      [] countryName = "Maldives" /\ id = "ntbs" -> 0 - 15000
      [] countryName = "Maldives" /\ id = "connectivity" -> 0 - 1000
      [] countryName = "Afghanistan" /\ id = "trust" -> 0 - 20000
      [] countryName = "Afghanistan" /\ id = "tariffs" -> 10000
      [] OTHER -> 0

\* lines 54-74: the effect on [gameState.playerCountry, decisions]; the value
\* of allCountriesDecisions after it ran
InitAIDecisions(playerCountry, decisions, current) ==
    IF playerCountry = "" THEN current
    ELSE [c \in Roster |->
            IF c # playerCountry
            THEN [i \in 1..Len(createDefaultPolicyDecisions) |->
                    [createDefaultPolicyDecisions[i] EXCEPT
                       !.value = @ + getCountryPolicyVariations(c, createDefaultPolicyDecisions[i].id)]]
            ELSE decisions]

\* lines 216-233: rnd is the Math.random() draw
AIAdjustment(id, countryStats, rnd) ==
    LET a1 == IF countryStats.gdp_growth < 2000
              THEN (IF id = "tariffs" THEN 0 - 1000
                    ELSE IF id = "connectivity" THEN 500 ELSE 0)
              ELSE 0
        a2 == IF countryStats.unemployment > 8000 /\ id = "connectivity" THEN 800 ELSE a1
    IN  a2 + Mul(rnd - 500, 200)

\* simulateAIDecisions with newValue = decision.value + adjustment
simulateAIDecisionsUnclamped(countries, playerCountry, decisions, current, aiDraws) ==
    [c \in Roster |->
        IF c # playerCountry
        THEN LET currentDecisions == IF c \in DOMAIN current THEN current[c]
                                     ELSE createDefaultPolicyDecisions
             IN  [i \in 1..Len(currentDecisions) |->
                    [currentDecisions[i] EXCEPT
                       !.value = @ + AIAdjustment(currentDecisions[i].id,
                                                  countries[c],
                                                  aiDraws[c][currentDecisions[i].id])]]
        ELSE decisions]

\* lines 206-248; aiDraws[c][id] is the draw for decision id of country c
simulateAIDecisions(countries, playerCountry, decisions, current, aiDraws) ==
    [c \in Roster |->
        IF c # playerCountry
        THEN LET currentDecisions == IF c \in DOMAIN current THEN current[c]
                                     ELSE createDefaultPolicyDecisions
             IN  [i \in 1..Len(currentDecisions) |->
                    [currentDecisions[i] EXCEPT
                       !.value = Max(currentDecisions[i].min,
                                     Min(currentDecisions[i].max,
                                         @ + AIAdjustment(currentDecisions[i].id,
                                                          countries[c],
                                                          aiDraws[c][currentDecisions[i].id])))]]
        ELSE decisions]

\* lines 257-260
AvgCooperation(updatedDecisions) ==
    DivInt(SumSeq([i \in 1..Len(SOUTH_ASIAN_COUNTRIES) |->
                     DecisionValue(updatedDecisions[SOUTH_ASIAN_COUNTRIES[i]], "trust", 50000)]),
           Len(SOUTH_ASIAN_COUNTRIES))

\* an event that reaches every country, whatever its target list
TargetsAnyCountry(event, countryName) == TRUE

\* line 298: event.targetCountries?.includes(countryName)
Targets(event, countryName) ==
    \E i \in 1..Len(event.targetCountries) : event.targetCountries[i] = countryName

\* lines 296-303: the summed effects of the events that target countryName
RECURSIVE CountryEventEffects(_, _)
CountryEventEffects(regionalEvents, countryName) ==
    IF regionalEvents = <<>> THEN <<>>
    ELSE LET event == regionalEvents[Len(regionalEvents)]
             before == CountryEventEffects(SubSeq(regionalEvents, 1, Len(regionalEvents) - 1),
                                           countryName)
         IN  IF Targets(event, countryName)
             THEN [key \in DOMAIN before \cup DOMAIN event.effects |->
                     (IF key \in DOMAIN before THEN before[key] ELSE 0)
                     + (IF key \in DOMAIN event.effects THEN event.effects[key] ELSE 0)]
             ELSE before

\* the state of a country read from the map under construction as soon as
\* the map has an entry
CurrentStatsFromNewMap(countries, newCountries, countryName) ==
    IF DOMAIN newCountries = {} THEN countries[countryName]
    ELSE [newCountries[CHOOSE c \in DOMAIN newCountries : TRUE] EXCEPT
            !.country = countryName]

\* line 291: const currentStats = gameState.countries[countryName]
CurrentStats(countries, newCountries, countryName) == countries[countryName]

\* the new state keeping the year applyPolicyEffects copied from currentStats
StampYearKept(newStats, nextYear) == newStats

\* line 313: newStats.year = gameState.year + 1
StampYear(newStats, nextYear) == [newStats EXCEPT !.year = nextYear]

\* lines 290-315, for order[i..]; order is Object.keys(gameState.countries)
RECURSIVE UpdateCountriesFrom(_, _, _, _, _, _, _, _, _)
UpdateCountriesFrom(order, i, newCountries, countries, updatedDecisions, spilloversByCountry, regionalEvents, jitter, nextYear) ==
    IF i > Len(order) THEN newCountries
    ELSE LET countryName == order[i]
             currentStats == CurrentStats(countries, newCountries, countryName)
             newStats == applyPolicyEffects(currentStats,
                                            DecisionsOf(updatedDecisions, countryName),
                                            SpilloversFor(spilloversByCountry, countryName),
                                            CountryEventEffects(regionalEvents, countryName),
                                            jitter[countryName])
         IN  UpdateCountriesFrom(order, i + 1,
                 [c \in DOMAIN newCountries \cup {countryName} |->
                     IF c = countryName THEN StampYear(newStats, nextYear)
                     ELSE newCountries[c]],
                 countries, updatedDecisions, spilloversByCountry, regionalEvents,
                 jitter, nextYear)

\* Object.values(spilloversByCountry).flat(), keys in the order given
RECURSIVE FlatSpillovers(_, _, _)
FlatSpillovers(spilloversByCountry, order, i) ==
    IF i > Len(order) THEN <<>>
    ELSE SpilloversFor(spilloversByCountry, order[i])
         \o FlatSpillovers(spilloversByCountry, order, i + 1)

\* ---- inputs of the handlers ----

\* the countries the player picks from
PlayerChoices == {"India", "Nepal"}

\* the slider moves of the player
DecisionChanges == { <<"energy", 6000>> }

LeverSet == {LeverIds[i] : i \in 1..Len(LeverIds)}

\* draws of simulateAIDecisions (per country and lever) and of
\* applyPolicyEffects (per country): all in the middle, or low and high ones
MidAiDraws == [c \in Roster |-> [id \in LeverSet |-> 500]]

SkewAiDraws == [c \in Roster |-> [id \in LeverSet |-> IF id = "trust" THEN 0 ELSE 999]]

MidJitter == [c \in Roster |-> 500]

SkewJitter == [c \in Roster |-> IF c \in {"India", "Nepal", "Maldives"} THEN 0 ELSE 999]

\* draws[i] of generateRegionalEvents: every event tried triggers, none does,
\* all but the first do
AllTrigger == [i \in 1..Len(eventPool) |-> 0]

NoneTriggers == [i \in 1..Len(eventPool) |-> 999]

SecondTriggers == [i \in 1..Len(eventPool) |-> IF i = 1 THEN 999 ELSE 0]

YearDraw(gateDraw, k, draws, aiDraws, jitter) ==
    [gateDraw |-> gateDraw, k |-> k, draws |-> draws, aiDraws |-> aiDraws,
     jitter |-> jitter]

\* the random draws of one handleNextYear: the yearly gate closed (700), or
\* open with fdi_boom (5 places) or health_breakthrough (8 places) tried first
YearDraws ==
    { YearDraw(700, 5, AllTrigger, MidAiDraws, MidJitter),
      YearDraw(300, 5, AllTrigger, MidAiDraws, MidJitter),
      YearDraw(300, 8, AllTrigger, SkewAiDraws, MidJitter),
      YearDraw(300, 5, NoneTriggers, MidAiDraws, SkewJitter),
      YearDraw(300, 5, SecondTriggers, SkewAiDraws, SkewJitter),
      YearDraw(300, 8, SecondTriggers, MidAiDraws, MidJitter) }

Reverse(seq) == [i \in 1..Len(seq) |-> seq[Len(seq) + 1 - i]]

\* Object.keys(gameState.countries) is the insertion order of
\* handleCountrySelect; the reverse order stands for any other order
CountryOrders == {SOUTH_ASIAN_COUNTRIES, Reverse(SOUTH_ASIAN_COUNTRIES)}

\* ---- the handlers ----

\* the loading gate testing the indicator tables only
LoadedIndicatorsOnly == allIndicators # NullData

\* lines 102-112: nothing of the game is rendered, so no handler can run,
\* while !allIndicators || !tradeDataLoaded
Loaded == allIndicators # NullData /\ tradeDataLoaded

\* lines 94-99: loadAllExcelIndicators().then(setAllIndicators)
LoadAllExcelIndicators ==
    /\ allIndicators = NullData
    /\ allIndicators' = IndicatorTable
    /\ UNCHANGED <<gameState, tradeProductsData, tradeDataLoaded, newEvents,
                   playerDecisions, historicalStats, gamePhase, finalScore,
                   allCountriesDecisions, jitterDraws>>
    /\ UNCHANGED notGameVars

\* lines 94-99 and TradeProductsLoader.ts lines 4-9:
\* loadTradeProductsData().then(() => setTradeDataLoaded(true))
LoadTradeProductsData ==
    /\ ~tradeDataLoaded
    /\ tradeProductsData' = BilateralTradeProducts
    /\ tradeDataLoaded' = TRUE
    /\ UNCHANGED <<gameState, allIndicators, newEvents, playerDecisions, historicalStats,
                   gamePhase, finalScore, allCountriesDecisions, jitterDraws>>
    /\ UNCHANGED notGameVars

\* the state object with the trade matrix as the years left it, which is what
\* a matrix updated in place would give
FreshGameStateOnLiveMatrix(playerCountry, gameActive) ==
    [countries |-> [c \in Roster |-> BuildInitialStatsOf(allIndicators, c, StartYear)],
     playerCountry |-> playerCountry,
     regionalMatrix |-> [INITIAL_REGIONAL_MATRIX EXCEPT
                           !.tradeMatrix = gameState.regionalMatrix.tradeMatrix],
     spilloverEffects |-> <<>>, detailedSpillovers |-> <<>>,
     year |-> StartYear, gameActive |-> gameActive]

\* the state object handleCountrySelect and handleRestart set
FreshGameState(playerCountry, gameActive) ==
    [countries |-> [c \in Roster |-> BuildInitialStatsOf(allIndicators, c, StartYear)],
     playerCountry |-> playerCountry,
     regionalMatrix |-> INITIAL_REGIONAL_MATRIX,
     spilloverEffects |-> <<>>, detailedSpillovers |-> <<>>,
     year |-> StartYear, gameActive |-> gameActive]

\* lines 180-198, and the effect of lines 54-74 that the new player country fires
HandleCountrySelect ==
    /\ Loaded
    /\ gamePhase = "select"
    /\ \E country \in PlayerChoices :
          /\ gameState' = FreshGameState(country, TRUE)
          /\ historicalStats' = <<BuildInitialStatsOf(allIndicators, country, StartYear)>>
          /\ allCountriesDecisions' =
                InitAIDecisions(country, playerDecisions, allCountriesDecisions)
    /\ gamePhase' = "play"
    /\ UNCHANGED <<allIndicators, tradeProductsData, tradeDataLoaded, newEvents,
                   playerDecisions, finalScore, jitterDraws>>
    /\ UNCHANGED notGameVars

\* lines 200-204, and the effect of lines 54-74 that the new decisions fire
HandleDecisionChange ==
    /\ Loaded
    /\ gamePhase = "play"
    /\ \E change \in DecisionChanges :
          /\ playerDecisions' = SetDecision(playerDecisions, change[1], change[2])
          /\ allCountriesDecisions' =
                InitAIDecisions(gameState.playerCountry, playerDecisions',
                                allCountriesDecisions)
    /\ UNCHANGED <<gameState, allIndicators, tradeProductsData, tradeDataLoaded,
                   newEvents, historicalStats, gamePhase, finalScore, jitterDraws>>
    /\ UNCHANGED notGameVars

\* the new state of the player's country put in the place of the last entry
NextHistoryReplacing(history, playerCountry, newCountries) ==
    IF playerCountry # "" /\ playerCountry \in DOMAIN newCountries
    THEN [history EXCEPT ![Len(history)] = newCountries[playerCountry]]
    ELSE history

\* lines 357-359: setHistoricalStats(prev => [...prev, newCountries[playerCountry]])
NextHistory(history, playerCountry, newCountries) ==
    IF playerCountry # "" /\ playerCountry \in DOMAIN newCountries
    THEN Append(history, newCountries[playerCountry])
    ELSE history

\* handleNextYear with the detailed spillovers of step 5 handed to
\* applyPolicyEffects as trade_gdp spillovers of their target countries
NextYearUpdateFeedingBack(aiDraws, gateDraw, k, draws, jitter, order) ==
    LET updatedDecisions ==
            simulateAIDecisions(gameState.countries, gameState.playerCountry,
                                playerDecisions, allCountriesDecisions, aiDraws)
        avgCooperation == AvgCooperation(updatedDecisions)
        regionalEvents ==
            generateRegionalEvents(gameState.year + 1, avgCooperation,
                                   gameState.regionalMatrix.regionalEvents,
                                   gateDraw, k, draws)
        spilloversByCountry ==
            simulateRegionalEffects(order, updatedDecisions,
                                    gameState.regionalMatrix.tradeMatrix)
        detailedSpillovers ==
            calculateDetailedSpillovers(tradeProductsData, gameState.playerCountry,
                                        DecisionsOf(updatedDecisions,
                                                    gameState.playerCountry),
                                        gameState.regionalMatrix.tradeMatrix,
                                        gameState.countries[gameState.playerCountry])
        detailedTo(c) ==
            LET hits == SelectSeq(detailedSpillovers, LAMBDA d : d.targetCountry = c)
            IN  [i \in 1..Len(hits) |-> Spillover("trade_gdp", hits[i].magnitude)]
        fedBack ==
            [c \in Roster |-> SpilloversFor(spilloversByCountry, c) \o detailedTo(c)]
        newCountries ==
            UpdateCountriesFrom(order, 1, <<>>, gameState.countries,
                                updatedDecisions, fedBack,
                                regionalEvents, jitter, gameState.year + 1)
        updatedTradeMatrix ==
            updateTradeMatrix(gameState.regionalMatrix.tradeMatrix,
                              TradePolicyChanges(updatedDecisions))
    IN  [allCountriesDecisions |-> updatedDecisions,
         gameState |->
             [gameState EXCEPT
                !.countries = newCountries,
                !.year = @ + 1,
                !.spilloverEffects = FlatSpillovers(spilloversByCountry, order, 1),
                !.detailedSpillovers = detailedSpillovers,
                !.regionalMatrix =
                    [@ EXCEPT !.tradeMatrix = updatedTradeMatrix,
                              !.cooperationIndex = avgCooperation,
                              !.regionalEvents = @ \o regionalEvents]],
         newEvents |-> regionalEvents,
         historicalStats |->
             IF gameState.playerCountry # ""
                /\ gameState.playerCountry \in DOMAIN newCountries
             THEN Append(historicalStats, newCountries[gameState.playerCountry])
             ELSE historicalStats]

\* lines 253-359: the values handleNextYear hands to the state setters, for
\* the given random draws and key order
NextYearUpdate(aiDraws, gateDraw, k, draws, jitter, order) ==
    LET updatedDecisions ==
            simulateAIDecisions(gameState.countries, gameState.playerCountry,
                                playerDecisions, allCountriesDecisions, aiDraws)
        avgCooperation == AvgCooperation(updatedDecisions)
        regionalEvents ==
            generateRegionalEvents(gameState.year + 1, avgCooperation,
                                   gameState.regionalMatrix.regionalEvents,
                                   gateDraw, k, draws)
        spilloversByCountry ==
            simulateRegionalEffects(order, updatedDecisions,
                                    gameState.regionalMatrix.tradeMatrix)
        detailedSpillovers ==
            calculateDetailedSpillovers(tradeProductsData, gameState.playerCountry,
                                        DecisionsOf(updatedDecisions,
                                                    gameState.playerCountry),
                                        gameState.regionalMatrix.tradeMatrix,
                                        gameState.countries[gameState.playerCountry])
        newCountries ==
            UpdateCountriesFrom(order, 1, <<>>, gameState.countries,
                                updatedDecisions, spilloversByCountry,
                                regionalEvents, jitter, gameState.year + 1)
        updatedTradeMatrix ==
            updateTradeMatrix(gameState.regionalMatrix.tradeMatrix,
                              TradePolicyChanges(updatedDecisions))
    IN  [allCountriesDecisions |-> updatedDecisions,
         gameState |->
             [gameState EXCEPT
                !.countries = newCountries,
                !.year = @ + 1,
                !.spilloverEffects = FlatSpillovers(spilloversByCountry, order, 1),
                !.detailedSpillovers = detailedSpillovers,
                !.regionalMatrix =
                    [@ EXCEPT !.tradeMatrix = updatedTradeMatrix,
                              !.cooperationIndex = avgCooperation,
                              !.regionalEvents = @ \o regionalEvents]],
         newEvents |-> regionalEvents,
         historicalStats |->
             NextHistory(historicalStats, gameState.playerCountry, newCountries)]

\* lines 250-360, with the random draws taken from yearDraws and the key order
\* from orders; the only test of the handler is the one of line 251 on
\* gameActive, and lastYear is where the exploration stops
NextYearWith(yearDraws, orders, lastYear) ==
    /\ Loaded
    /\ gamePhase = "play"
    /\ gameState.gameActive
    /\ gameState.year < lastYear
    /\ \E rnd \in yearDraws, order \in orders :
          \E update \in {NextYearUpdate(rnd.aiDraws, rnd.gateDraw, rnd.k, rnd.draws,
                                        rnd.jitter, order)} :
              /\ allCountriesDecisions' = update.allCountriesDecisions
              /\ gameState' = update.gameState
              /\ newEvents' = update.newEvents
              /\ historicalStats' = update.historicalStats
              /\ jitterDraws' = rnd.jitter
    /\ UNCHANGED <<allIndicators, tradeProductsData, tradeDataLoaded, playerDecisions,
                   gamePhase, finalScore>>
    /\ UNCHANGED notGameVars

\* lines 250-360
HandleNextYear == NextYearWith(YearDraws, CountryOrders, StartYear + MaxYears)

\* lines 362-373
HandleFinishGame ==
    /\ Loaded
    /\ gamePhase = "play"
    /\ gameState.playerCountry # ""
    /\ finalScore' = calculateScore(gameState.countries[gameState.playerCountry],
                                    BuildInitialStatsOf(allIndicators,
                                                        gameState.playerCountry, StartYear))
    /\ gamePhase' = "report"
    /\ UNCHANGED <<gameState, allIndicators, tradeProductsData, tradeDataLoaded,
                   newEvents, playerDecisions, historicalStats, allCountriesDecisions,
                   jitterDraws>>
    /\ UNCHANGED notGameVars

\* lines 375-396
HandleRestart ==
    /\ Loaded
    /\ gamePhase \in {"play", "report"}
    /\ gameState' = FreshGameState("", FALSE)
    /\ playerDecisions' = createDefaultPolicyDecisions
    /\ historicalStats' = <<>>
    /\ gamePhase' = "select"
    /\ finalScore' = 0
    /\ allCountriesDecisions' = <<>>
    /\ jitterDraws' = <<>>
    /\ UNCHANGED <<allIndicators, tradeProductsData, tradeDataLoaded, newEvents>>
    /\ UNCHANGED notGameVars

Init == IdleGame /\ IdleApply /\ IdleScore /\ IdleSpill /\ IdleTrade /\ IdlePolicy /\ IdleEvents

Next ==
    \/ LoadAllExcelIndicators
    \/ LoadTradeProductsData
    \/ HandleCountrySelect
    \/ HandleDecisionChange
    \/ HandleNextYear
    \/ HandleFinishGame
    \/ HandleRestart

Spec == Init /\ [][Next]_vars

\* ---- the game played to its last year and beyond ----

\* line 50
EndYear == 2043

\* the years handleNextYear is followed for: one more than the 20 years from
\* startYear to endYear
LongYears == 21

\* one draw a year: the gate open, the drought tried first (2 places), every
\* catalog draw a success
LongDraws == { YearDraw(300, 2, AllTrigger, MidAiDraws, MidJitter) }

\* lines 250-360, year after year with the sliders left alone
LongNextYear == NextYearWith(LongDraws, {SOUTH_ASIAN_COUNTRIES}, StartYear + LongYears)

NextLong ==
    \/ LoadAllExcelIndicators
    \/ LoadTradeProductsData
    \/ HandleCountrySelect
    \/ LongNextYear
    \/ HandleFinishGame
    \/ HandleRestart

SpecLong == Init /\ [][NextLong]_vars

----------------------------------------------------------------------------
\* The decision lists over the years: the effect that builds the AI lists,
\* the player's slider, and the simulateAIDecisions call that opens
\* handleNextYear and whose result is all the engine receives

MaxDecisionYears == 11

\* every draw of a year at the low end
LowAiDraws == [c \in Roster |-> [id \in LeverSet |-> 0]]

AiDrawSets == {LowAiDraws, SkewAiDraws}

\* gameState.countries as simulateAIDecisions reads it: the states built from
\* the indicator tables, or every country slow (gdp_growth 1.0) and with
\* high unemployment (10.0)
CountryProfiles ==
    { [c \in Roster |-> BuildInitialStatsOf(IndicatorTable, c, StartYear)],
      [c \in Roster |-> buildInitialStats(c, StartYear, 1000, 10000, 70000, 65000, 20000,
                                          2000, 1500000000, 30000)] }

\* the values the policy panel hands to handleDecisionChange: a lever's
\* minimum, another lever's maximum
SliderMoves ==
    { <<"tariffs", LeverMin("tariffs")>>,
      <<"trust", LeverMax("trust")>> }

InitPolicy ==
    /\ \E p \in PlayerChoices :
          /\ heldPlayer = p
          /\ heldDecisions = InitAIDecisions(p, createDefaultPolicyDecisions, <<>>)
    /\ decisionsPc = "held"
    /\ decisionYears = 0
    /\ IdleApply /\ IdleScore /\ IdleSpill /\ IdleTrade /\ IdleGame /\ IdleEvents

\* handleDecisionChange and the effect on [gameState.playerCountry, decisions]
SliderMove ==
    /\ \E ch \in SliderMoves :
          heldDecisions' = InitAIDecisions(heldPlayer,
                                           SetDecision(heldDecisions[heldPlayer], ch[1], ch[2]),
                                           heldDecisions)
    /\ decisionsPc' = "held"
    /\ UNCHANGED <<heldPlayer, decisionYears>>
    /\ UNCHANGED notPolicyVars

\* handleNextYear, step 1: updatedDecisions = simulateAIDecisions()
SimulateAIDecisionsCall ==
    /\ decisionYears < MaxDecisionYears
    /\ \E countries \in CountryProfiles, aiDraws \in AiDrawSets :
          heldDecisions' = simulateAIDecisions(countries, heldPlayer,
                                               heldDecisions[heldPlayer],
                                               heldDecisions, aiDraws)
    /\ decisionsPc' = "passed"
    /\ decisionYears' = decisionYears + 1
    /\ UNCHANGED heldPlayer
    /\ UNCHANGED notPolicyVars

NextPolicy == SliderMove \/ SimulateAIDecisionsCall

SpecPolicy == InitPolicy /\ [][NextPolicy]_vars

----------------------------------------------------------------------------
\* Properties of applyPolicyEffects (SpecApply)

InInterval(x, lo, hi) == lo <= x /\ x <= hi

BoundedFieldsInRange(s) ==
    /\ InInterval(s.gdp_growth, 0 - 10000, 15000)
    /\ InInterval(s.unemployment, 500, 50000)
    /\ InInterval(s.literacy_rate, 0, 100000)
    /\ InInterval(s.life_expectancy, 45000, 90000)
    /\ InInterval(s.poverty_rate, 0, 90000)
    /\ s.co2_emissions >= 0
    /\ InInterval(s.infant_mortality, 1000, 150000)
    /\ s.population >= 100000000

\* the state before "Apply bounds" in the call that has just returned
LastUnclamped ==
    UnclampedStats(heap[argRef], decisionsArg, spilloverArg, eventArg, rndDraw)

\* C1: starting from a state whose bounded indicators are in range, after any
\* number of yearly updates every bounded indicator of the country's state lies
\* in its documented interval.
C1_BoundedFieldsInRange == BoundedFieldsInRange(heap[statsRef])

\* a call has returned whose unclamped gdp_growth and population lay outside
\* their intervals
C1_Witness ==
    /\ applyPc = "ret" /\ retRef # 0
    /\ LastUnclamped.gdp_growth > 15000
    /\ LastUnclamped.population < 100000000
    /\ heap[retRef].gdp_growth = 15000
    /\ heap[retRef].population = 100000000

\* the policy-memory field of each persisted lever
MemoryField(id) ==
    CASE id = "tariffs" -> "tariff_rate"
      [] id = "connectivity" -> "infrastructure_investment"
      [] id = "agriculture" -> "agriculture_spending"
      [] id = "manufacturing" -> "manufacturing_spending"
      [] id = "services" -> "services_spending"
      [] id = "energy" -> "energy_spending"
      [] id = "technology" -> "technology_spending"

PersistedLevers == {"tariffs", "connectivity", "agriculture", "manufacturing",
                    "services", "energy", "technology"}

\* C2: after applyPolicyEffects each policy-memory field of the returned state
\* equals the value of the corresponding decision supplied in that call, for
\* every supplied value including 0, whatever the cooperation lever, the
\* spillovers and the event effects of the call.
C2_PolicyMemoryFidelity ==
    (applyPc = "ret" /\ retRef # 0) =>
        \A i \in 1..Len(decisionsArg) :
            decisionsArg[i].id \in PersistedLevers =>
                heap[retRef][MemoryField(decisionsArg[i].id)] = decisionsArg[i].value

\* C5: applyPolicyEffects leaves its arguments unchanged and returns an object
\* other than its currentStats argument.
C5_ArgumentsUnchanged ==
    [][(applyPc = "args" /\ applyPc' = "ret") =>
          /\ heap'[argRef] = heap[argRef]
          /\ retRef' # argRef
          /\ decisionsArg' = decisionsArg
          /\ spilloverArg' = spilloverArg
          /\ eventArg' = eventArg]_vars

\* a call has returned a state that differs from its argument in an indicator,
\* a policy-memory field and the year
C5_Witness ==
    /\ applyPc = "ret" /\ retRef # 0
    /\ heap[retRef].gdp_growth # heap[argRef].gdp_growth
    /\ heap[retRef].tariff_rate # heap[argRef].tariff_rate
    /\ heap[retRef].year = heap[argRef].year + 1
    /\ spilloverArg # <<>>

\* the sequence without its i-th element
RemoveAt(seq, i) == SubSeq(seq, 1, i - 1) \o SubSeq(seq, i + 1, Len(seq))

\* the state before "Apply bounds" of the same call made without the i-th
\* inbound spillover, under the same jitter draw
UnclampedWithout(i) ==
    UnclampedStats(heap[argRef], decisionsArg, RemoveAt(spilloverArg, i), eventArg, rndDraw)

\* C11: an inbound spillover of type technology with effect e changes the
\* result before the bounds by exactly +0.3*e on literacy_rate and +0.15*e on
\* gdp_growth, relative to the same call without that spillover under the same
\* jitter draw; every other field is the same in both runs.
C11_TechnologySpilloverExact ==
    (applyPc = "ret" /\ retRef # 0) =>
        \A i \in 1..Len(spilloverArg) :
            spilloverArg[i].policyType = "technology" =>
                LastUnclamped =
                    [UnclampedWithout(i) EXCEPT
                       !.literacy_rate = @ + Mul(spilloverArg[i].effect, 300),
                       !.gdp_growth = @ + Mul(spilloverArg[i].effect, 150)]

\* a call with a technology spillover of effect 0.2 has returned: literacy_rate
\* before the bounds is 0.06 above that of the run without it
C11_Witness ==
    /\ applyPc = "ret" /\ retRef # 0
    /\ \E i \in 1..Len(spilloverArg) :
          /\ spilloverArg[i] = Spillover("technology", 200)
          /\ LastUnclamped.literacy_rate = UnclampedWithout(i).literacy_rate + 60
          /\ LastUnclamped.gdp_growth = UnclampedWithout(i).gdp_growth + 30
    /\ eventArg # <<>>

\* the decision of the last call for a lever, if the list has one
HasDecision(id) == \E i \in 1..Len(decisionsArg) : decisionsArg[i].id = id

SuppliedValue(id) ==
    decisionsArg[CHOOSE i \in 1..Len(decisionsArg) : decisionsArg[i].id = id].value

\* what the tariff lever added to gdp_growth in the last call: the result
\* before the bounds, less that of the same call with the tariff decision left
\* at the persisted tariff_rate
TariffContributionToGdp ==
    LastUnclamped.gdp_growth
    - UnclampedStats(heap[argRef],
                     SetDecision(decisionsArg, "tariffs", heap[argRef].tariff_rate),
                     spilloverArg, eventArg, rndDraw).gdp_growth

\* C12: the tariff lever adds 0.12 * (persisted tariff_rate - new tariffs
\* value) / 100 to gdp_growth before jitter and the bounds; with tariff_rate 15
\* and a decision tariffs = 5 the contribution is +0.012.
C12_TariffContribution ==
    (applyPc = "ret" /\ retRef # 0 /\ HasDecision("tariffs")) =>
        TariffContributionToGdp
            = Mul(DivInt(heap[argRef].tariff_rate - SuppliedValue("tariffs"), 100), 120)

\* the scenario of C12: tariff_rate 15, tariffs 5, no spillovers, no events,
\* contribution +0.012
C12_Scenario ==
    /\ applyPc = "ret" /\ retRef # 0 /\ HasDecision("tariffs")
    /\ heap[argRef].tariff_rate = 15000
    /\ SuppliedValue("tariffs") = 5000
    /\ spilloverArg = <<>> /\ eventArg = <<>>
    /\ TariffContributionToGdp = 12

\* the numeric fields of the state when the event effects are applied: those
\* of the argument and the tariff revenue set before
NumericFields(s) == (DOMAIN s \cup {"tariffRevenue"}) \ {"country"}

\* the event effects with one key removed
WithoutKey(effects, key) == [k \in DOMAIN effects \ {key} |-> effects[k]]

\* C15: an eventEffects key that is not a numeric field of the state (trust,
\* connectivity) is ignored: applyPolicyEffects returns the same state as with
\* that key removed and adds no field to the state.
C15_UnknownEventKeysIgnored ==
    (applyPc = "ret" /\ retRef # 0) =>
        /\ DOMAIN heap[retRef] = DOMAIN heap[argRef] \cup {"tariffRevenue"}
        /\ \A key \in DOMAIN eventArg \ NumericFields(heap[argRef]) :
              heap[retRef] =
                  [applyPolicyEffects(heap[argRef], decisionsArg, spilloverArg,
                                      WithoutKey(eventArg, key), rndDraw)
                     EXCEPT !.year = heap[argRef].year + 1]

\* a call has returned whose event effects held trust and connectivity next to
\* keys of the state, and the keys of the state were applied
C15_Witness ==
    /\ applyPc = "ret" /\ retRef # 0
    /\ {"trust", "connectivity"} \subseteq DOMAIN eventArg \ NumericFields(heap[argRef])
    /\ "infrastructure_investment" \in DOMAIN eventArg
    /\ heap[retRef] # [applyPolicyEffects(heap[argRef], decisionsArg, spilloverArg,
                                           <<>>, rndDraw)
                         EXCEPT !.year = heap[argRef].year + 1]

\* draws of a second call: both ends of [0, 1) and the middle
OtherDraws == {0, 500, 999}

\* newStats of the last call when it reached the random variation
LastBeforeJitter == BeforeJitter(heap[argRef], decisionsArg, spilloverArg, eventArg)

\* what the last call would have returned from there had Math.random() drawn rnd
ReturnedUnder(newStats, rnd) ==
    [FromJitter(newStats, decisionsArg, rnd) EXCEPT !.year = heap[argRef].year + 1]

\* C18: the jitter is the only nondeterminism of applyPolicyEffects: two calls
\* with identical state, decisions, spillovers and event effects agree on
\* every field other than gdp_growth, and their gdp_growth differs by at most
\* 0.5 (each draw lies in [-0.25, +0.25]).
C18_JitterOnlyNondeterminism ==
    (applyPc = "ret" /\ retRef # 0) =>
        \A newStats \in {LastBeforeJitter}, rnd \in OtherDraws :
            \A other \in {ReturnedUnder(newStats, rnd)} :
                /\ [other EXCEPT !.gdp_growth = heap[retRef].gdp_growth] = heap[retRef]
                /\ Abs(other.gdp_growth - heap[retRef].gdp_growth) <= 500
                /\ Abs(Jitter(heap[argRef], rnd).gdp_growth - heap[argRef].gdp_growth) <= 250

\* a call has returned with the highest draw, and the lowest draw would have
\* given a gdp_growth lower by 0.499
C18_Witness ==
    /\ applyPc = "ret" /\ retRef # 0
    /\ rndDraw = 999
    /\ heap[retRef] = ReturnedUnder(LastBeforeJitter, 999)
    /\ heap[retRef].gdp_growth - ReturnedUnder(LastBeforeJitter, 0).gdp_growth = 499
    /\ spilloverArg # <<>>

\* the policy deltas of the last call
LastDeltas == PolicyDeltas(heap[argRef], decisionsArg)

\* the policy deltas of the last call had the persisted tariff_rate been 10
\* points higher and nothing else different
DeltasTariffRateUp ==
    PolicyDeltas([heap[argRef] EXCEPT !.tariff_rate = @ + 10000], decisionsArg)

\* what moving lever id from baseline to the value of the last call added to
\* gdp_growth, deltas being the policy deltas of that call
GdpFromBaseline(deltas, id, baseline) ==
    deltas.gdp_growth
    - PolicyDeltas(heap[argRef], SetDecision(decisionsArg, id, baseline)).gdp_growth

\* NTB and cooperation: the contribution to gdp_growth is coefficient * (value
\* - baseline) / 100 with the baselines 60 and 50, whatever the state holds
NtbAndTrustFromBaseline(deltas) ==
    /\ GdpFromBaseline(deltas, "ntbs", 60000)
         = 0 - Mul(DivInt(DecisionValue(decisionsArg, "ntbs", 60000) - 60000, 100), 80)
    /\ GdpFromBaseline(deltas, "trust", 50000)
         = Mul(DivInt(DecisionValue(decisionsArg, "trust", 50000) - 50000, 100), 60)

LeverDelta(currentStats, decisions, id) ==
    DecisionValue(decisions, id, LeverDefault(id))
    - OrDefault(currentStats[MemoryField(id)], LeverDefault(id))

\* C20: for every delta-based lever (connectivity, agriculture, manufacturing,
\* services, energy, technology, tariffs), if the decision of year N+1 equals
\* that of year N, the delta computed in year N+1 is zero, whatever the other
\* decisions, the spillovers and the events of year N.
C20_RepeatedDecisionZeroDelta ==
    (applyPc = "ret" /\ retRef # 0) =>
        \A id \in PersistedLevers :
            HasDecision(id) => LeverDelta(heap[retRef], decisionsArg, id) = 0

\* the same with connectivity left out
C20_ExceptConnectivity ==
    (applyPc = "ret" /\ retRef # 0) =>
        \A id \in PersistedLevers \ {"connectivity"} :
            HasDecision(id) => LeverDelta(heap[retRef], decisionsArg, id) = 0

\* the failing input of C20: connectivity 10 and trust 100 in year N, no
\* spillovers and no events; the connectivity delta of year N+1 is -0.15
C20_FailingInput ==
    /\ applyPc = "ret" /\ retRef # 0
    /\ HasDecision("connectivity") /\ SuppliedValue("connectivity") = 10000
    /\ SuppliedValue("trust") = 100000
    /\ spilloverArg = <<>> /\ eventArg = <<>>
    /\ LeverDelta(heap[retRef], decisionsArg, "connectivity") = 0 - 150
    /\ PolicyDeltas(heap[retRef], decisionsArg).unemployment = heap[retRef].unemployment + 15

----------------------------------------------------------------------------
\* Properties of calculateScore (SpecScore)

\* C8: calculateScore returns a value in [0,1000] for every pair of final and
\* initial states.
C8_ScoreInRange == (score # 0 - 1) => InInterval(score, 0, 1000000)

\* scores have been limited from above and from below
C8_Witness ==
    /\ score = 0
    /\ UnclampedScore(finalStats, initialStats) < 0
    /\ initialStats.gdp_growth = 15000

\* C9: calculateScore(x, x) = 500 for every state x.
C9_IdenticalStatesScore500 ==
    (score # 0 - 1 /\ finalStats = initialStats) => score = 500000

\* the score of a state against itself has been computed, for a state away
\* from the fallback values
C9_Witness ==
    /\ score # 0 - 1
    /\ finalStats = initialStats
    /\ finalStats.gdp_growth = 0 - 10000
    /\ finalStats.co2_emissions = 9000

----------------------------------------------------------------------------
\* Properties of the spillover propagator (SpecSpill)

\* the spillover type produced for a policy change named by a decision id
SpilloverTypes == {"infrastructure", "environment", "manufacturing", "technology", "energy"}

\* the decisions of country hold a nonzero change of the given type
HasChange(country, type) ==
    \E i \in 1..Len(allDecisionsArg[country]) :
        allDecisionsArg[country][i].id = type /\ allDecisionsArg[country][i].value # 0

\* C7: for every source country, every trade edge touching it and every
\* recognized policy change its decisions contain with a nonzero value, the
\* result of simulateRegionalEffects holds a spillover of that type from that
\* source in the list of the edge's other endpoint (energy: whitelisted pairs).
C7_EveryChangeYieldsSpillover ==
    (spillPc = "regionalDone") =>
        \A source \in Roster, i \in 1..Len(tradeMatrixArg), type \in SpilloverTypes :
            LET trade == tradeMatrixArg[i]
                target == IF trade.from = source THEN trade.to ELSE trade.from
            IN  ( /\ (trade.from = source \/ trade.to = source)
                  /\ HasChange(source, type)
                  /\ (type = "energy" => hasEnergyTrade(source, target)) )
                => \E k \in 1..Len(SpilloversFor(byCountryRet, target)) :
                       /\ byCountryRet[target][k].sourceCountry = source
                       /\ byCountryRet[target][k].policyType = type

\* the edges between two countries, in either direction
EdgesBetween(matrix, a, b) ==
    {i \in 1..Len(matrix) : \/ (matrix[i].from = a /\ matrix[i].to = b)
                            \/ (matrix[i].from = b /\ matrix[i].to = a)}

\* C10: in calculateTradeSpillovers, for a trade edge with cooperation = 0 every
\* emitted trade_gdp and technology spillover has effect 0, for any policy
\* change values and trade volume.
C10_ZeroCooperationZeroEffect ==
    (spillPc = "directDone") =>
        \A k \in 1..Len(spilloversRet) :
            ( /\ spilloversRet[k].policyType \in {"trade_gdp", "technology"}
              /\ \A i \in EdgesBetween(tradeMatrixArg, sourceArg,
                                       spilloversRet[k].targetCountry) :
                     tradeMatrixArg[i].cooperation = 0 )
            => spilloversRet[k].effect = 0

\* trade_gdp and technology spillovers have been emitted over an edge with
\* cooperation 0 and positive trade volume, for nonzero changes, next to
\* spillovers of nonzero effect
C10_Witness ==
    /\ spillPc = "directDone"
    /\ Change(policyChangesArg, "gdp_growth") # 0
    /\ Change(policyChangesArg, "technology_investment") # 0
    /\ \E k1, k2 \in 1..Len(spilloversRet) :
          /\ spilloversRet[k1].policyType = "trade_gdp"
          /\ spilloversRet[k2].policyType = "technology"
          /\ spilloversRet[k1].targetCountry = spilloversRet[k2].targetCountry
          /\ \A i \in EdgesBetween(tradeMatrixArg, sourceArg, spilloversRet[k1].targetCountry) :
                tradeMatrixArg[i].cooperation = 0 /\ tradeMatrixArg[i].tradeVolume > 0
    /\ \E k \in 1..Len(spilloversRet) :
          spilloversRet[k].policyType = "technology" /\ spilloversRet[k].effect # 0

----------------------------------------------------------------------------
\* Properties of the decision lists (SpecPolicy)

ValueInRange(decision) ==
    decision.min <= decision.value /\ decision.value <= decision.max

LowestNudge == 0 - 1100

HighestNudge == 900

\* list new is list old with every value nudged and clamped to [min,max]
Nudged(old, new) ==
    /\ Len(new) = Len(old)
    /\ \A i \in 1..Len(old) :
          /\ [new[i] EXCEPT !.value = old[i].value] = old[i]
          /\ new[i].value >= Max(old[i].min, Min(old[i].max, old[i].value + LowestNudge))
          /\ new[i].value <= Max(old[i].min, Min(old[i].max, old[i].value + HighestNudge))

\* C21: for every non-player country the decision list used in year N+1 is
\* the list used in year N with each value nudged and clamped to [min,max] by
\* simulateAIDecisions; the adjustments accumulated over earlier years are
\* kept when the player changes their own decisions between years.
C21_AIListsCarriedOver ==
    [][\A c \in Roster \ {heldPlayer} :
          /\ decisionsPc' = "passed" => Nudged(heldDecisions[c], heldDecisions'[c])
          /\ decisionsPc' = "held" => heldDecisions'[c] = heldDecisions[c]]_vars

\* the part of C21 that holds: the list simulateAIDecisions returns is the
\* list allCountriesDecisions held when it was called, nudged and clamped
C21_NudgedFromHeld ==
    [][\A c \in Roster \ {heldPlayer} :
          decisionsPc' = "passed" => Nudged(heldDecisions[c], heldDecisions'[c])]_vars

\* the failing input of C21: the player moves a slider after years in which
\* Afghanistan's tariff decision came down from 25 to 20; the effect has put
\* it back to 25
C21_FailingInput ==
    /\ decisionsPc = "held"
    /\ decisionYears >= 5
    /\ DecisionValue(heldDecisions["Afghanistan"], "tariffs", 0 - 1) = 25000

----------------------------------------------------------------------------
\* Properties of the trade matrix (SpecTrade)

\* C6: after any sequence of updateTradeMatrix calls starting from
\* INITIAL_TRADE_MATRIX, every edge satisfies 0 <= tradeVolume <= 100,
\* 0 <= tariffRate <= 50 and 0 <= cooperation <= 100.
C6_EdgesInRange ==
    \A i \in 1..Len(liveMatrix) :
        /\ InInterval(liveMatrix[i].tradeVolume, 0, 100000)
        /\ InInterval(liveMatrix[i].tariffRate, 0, 50000)
        /\ InInterval(liveMatrix[i].cooperation, 0, 100000)

\* the list of ordered (from, to) pairs of a matrix
EndPoints(matrix) == [i \in 1..Len(matrix) |-> <<matrix[i].from, matrix[i].to>>]

\* C17: the trade graph has no self-loop and no two edges with the same
\* ordered (from, to) pair; this holds for INITIAL_TRADE_MATRIX and every
\* updateTradeMatrix keeps the list of (from, to) pairs.
C17_NoSelfLoopNoDuplicate ==
    /\ \A i \in 1..Len(liveMatrix) : liveMatrix[i].from # liveMatrix[i].to
    /\ \A i, j \in 1..Len(liveMatrix) :
          EndPoints(liveMatrix)[i] = EndPoints(liveMatrix)[j] => i = j
    /\ EndPoints(liveMatrix) = EndPoints(INITIAL_TRADE_MATRIX)

\* the matrix has been updated for years, every edge has changed, and both
\* directions of the India - Nepal pair are edges
C17_Witness ==
    /\ tradeYears >= 3
    /\ \A i \in 1..Len(liveMatrix) : liveMatrix[i] # INITIAL_TRADE_MATRIX[i]
    /\ \E i, j \in 1..Len(liveMatrix) :
          /\ EndPoints(liveMatrix)[i] = <<"India", "Nepal">>
          /\ EndPoints(liveMatrix)[j] = <<"Nepal", "India">>

----------------------------------------------------------------------------
\* Properties of the yearly loop (Spec)

\* the step is a handleNextYear
YearAdvances == gameState'.year = gameState.year + 1

\* the aggregate spillovers of this step's decisions over the trade matrix of
\* the year before
SnapshotSpillovers ==
    simulateRegionalEffects(SOUTH_ASIAN_COUNTRIES, allCountriesDecisions',
                            gameState.regionalMatrix.tradeMatrix)

\* the state applyPolicyEffects yields for country c from the state of c of
\* the year before, the given aggregate spillovers, and the decisions, events
\* and draws of this step
StateFromSnapshot(c, spilloversByCountry) ==
    [applyPolicyEffects(
         gameState.countries[c],
         DecisionsOf(allCountriesDecisions', c),
         SpilloversFor(spilloversByCountry, c),
         CountryEventEffects(newEvents', c),
         jitterDraws'[c])
     EXCEPT !.year = gameState.year + 1]

\* C3: in handleNextYear every country's next state is computed from the
\* snapshot of the year before (its own state, and the trade matrix of the
\* year before for the spillovers, aggregate and detailed), whatever the order
\* in which the countries are processed: no next-year state of another
\* country and no updated trade matrix is read.
C3_NextStateFromSnapshot ==
    [][YearAdvances =>
          /\ DOMAIN gameState'.countries = DOMAIN gameState.countries
          /\ \A spilloversByCountry \in {SnapshotSpillovers} :
                \A c \in DOMAIN gameState.countries :
                    gameState'.countries[c] = StateFromSnapshot(c, spilloversByCountry)
          /\ gameState'.detailedSpillovers =
                calculateDetailedSpillovers(
                    tradeProductsData, gameState.playerCountry,
                    DecisionsOf(allCountriesDecisions', gameState.playerCountry),
                    gameState.regionalMatrix.tradeMatrix,
                    gameState.countries[gameState.playerCountry])]_vars

\* two years have been simulated, the trade matrix has changed, an event has
\* hit some country in the last year and a detailed spillover was computed
C3_Witness ==
    /\ gameState.year = StartYear + 2
    /\ gameState.regionalMatrix.tradeMatrix # INITIAL_TRADE_MATRIX
    /\ newEvents # <<>>
    /\ gameState.detailedSpillovers # <<>>
    /\ \E c1, c2 \in DOMAIN gameState.countries :
          gameState.countries[c1].gdp_growth # gameState.countries[c2].gdp_growth

\* number of events with the given id in the history
Occurrences(history, id) == Cardinality({i \in 1..Len(history) : history[i].id = id})

\* C4: within one game every unique catalog event (fdi_boom,
\* health_breakthrough, himalayan_earthquake) occurs at most once in
\* regionalMatrix.regionalEvents, and each handleNextYear appends the events it
\* emitted to the history the next call of generateRegionalEvents is given.
C4_UniqueEventsAtMostOnce ==
    [][/\ \A id \in UniqueEventIds :
             Occurrences(gameState'.regionalMatrix.regionalEvents, id) <= 1
       /\ YearAdvances =>
             gameState'.regionalMatrix.regionalEvents =
                 gameState.regionalMatrix.regionalEvents \o newEvents']_vars

\* a unique event is in the history and a later year has emitted another event
C4_Witness ==
    LET history == gameState.regionalMatrix.regionalEvents
    IN  /\ Len(history) >= 2
        /\ history[1].id \in UniqueEventIds
        /\ history[2].year > history[1].year

\* a step that builds country states or runs the simulation: handleCountrySelect
\* and handleRestart (buildInitialStats), handleNextYear
\* (calculateDetailedSpillovers and with it getBilateralTradeProducts)
BuildsOrSimulates ==
    \/ gameState'.countries # gameState.countries
    \/ gameState'.year # gameState.year
    \/ historicalStats' # historicalStats

\* C14: country-state construction and simulation never run before the
\* reference data is loaded: buildInitialStats, handleCountrySelect,
\* handleNextYear and calculateDetailedSpillovers execute only after both
\* loadAllExcelIndicators and loadTradeProductsData have completed, so
\* getBilateralTradeProducts never finds tradeProductsData unset.
C14_NoUseBeforeLoad ==
    [][BuildsOrSimulates =>
          /\ allIndicators # NullData
          /\ tradeDataLoaded
          /\ tradeProductsData # NullData]_vars

\* a year has been simulated and the detailed spillovers were computed from
\* the loaded trade products
C14_Witness ==
    /\ gameState.year > StartYear
    /\ gameState.detailedSpillovers # <<>>
    /\ tradeProductsData = BilateralTradeProducts
    /\ allIndicators = IndicatorTable

\* C16: detailed spillovers never feed back into state: the next-year country
\* states and the next trade matrix handleNextYear produces are those computed
\* from the country states, decisions, trade matrix, events and draws alone,
\* whatever calculateDetailedSpillovers returned this year or the year before,
\* and every detailed spillover has the player's country as its source.
C16_DetailedSpilloversDisplayOnly ==
    [][YearAdvances =>
          /\ \A spilloversByCountry \in {SnapshotSpillovers} :
                gameState'.countries =
                    [c \in DOMAIN gameState.countries |->
                        StateFromSnapshot(c, spilloversByCountry)]
          /\ gameState'.regionalMatrix.tradeMatrix =
                updateTradeMatrix(gameState.regionalMatrix.tradeMatrix,
                                  TradePolicyChanges(allCountriesDecisions'))
          /\ \A i \in 1..Len(gameState'.detailedSpillovers) :
                gameState'.detailedSpillovers[i].sourceCountry = gameState.playerCountry]_vars

\* a second year has been simulated from a state that held detailed
\* spillovers of nonzero magnitude, with Nepal as the player
C16_Witness ==
    /\ gameState.year = StartYear + 2
    /\ gameState.playerCountry = "Nepal"
    /\ Len(historicalStats) = 3
    /\ \E i \in 1..Len(gameState.detailedSpillovers) :
          /\ gameState.detailedSpillovers[i].magnitude # 0
          /\ gameState.detailedSpillovers[i].sourceCountry = "Nepal"
          /\ gameState.detailedSpillovers[i].targetCountry # "Nepal"

\* the step is a handleNextYear of a game in play: it appends to the history
NextYearStep ==
    /\ gamePhase = "play"
    /\ gamePhase' = "play"
    /\ historicalStats' # historicalStats

\* C22: after handleCountrySelect and any sequence of handleNextYear
\* invocations gameState.year has increased by exactly 1 per invocation, and
\* every country's state.year equals gameState.year.
C22_YearsInStep ==
    [][/\ NextYearStep => gameState'.year = gameState.year + 1
       /\ (gameState'.year # gameState.year /\ ~NextYearStep) => gameState'.year = StartYear
       /\ \A c \in DOMAIN gameState'.countries :
             gameState'.countries[c].year = gameState'.year]_vars

\* two years have been simulated: the player's and an AI country's state
\* carry the year of the game
C22_Witness ==
    /\ gamePhase = "play"
    /\ gameState.year = StartYear + 2
    /\ gameState.countries[gameState.playerCountry].year = StartYear + 2
    /\ gameState.countries["Bhutan"].year = StartYear + 2
    /\ newEvents # <<>>

\* C23: while a game is in play historicalStats holds exactly one entry per
\* simulated year for the player's country: after handleCountrySelect and n
\* handleNextYear invocations it has n+1 entries whose years are startYear,
\* startYear+1, ..., startYear+n in that order, and its last entry equals the
\* player's current state in gameState.countries.
C23_HistoryOnePerYear ==
    gamePhase = "play" =>
        /\ Len(historicalStats) = gameState.year - StartYear + 1
        /\ \A i \in 1..Len(historicalStats) :
              /\ historicalStats[i].year = StartYear + i - 1
              /\ historicalStats[i].country = gameState.playerCountry
        /\ historicalStats[Len(historicalStats)] = gameState.countries[gameState.playerCountry]

\* two years have been simulated and the three entries of the history differ
\* in more than the year
C23_Witness ==
    /\ gamePhase = "play"
    /\ Len(historicalStats) = 3
    /\ historicalStats[1].gdp_growth # historicalStats[2].gdp_growth
    /\ historicalStats[2].gdp_growth # historicalStats[3].gdp_growth
    /\ historicalStats[3] = gameState.countries["Nepal"]

\* the target list the catalog gives the event with this id: its explicit
\* targets, or the full roster when it is region_wide (no_major_event is not
\* in the catalog and goes to the full roster)
CatalogTargets(id) ==
    IF \E i \in 1..Len(eventPool) : eventPool[i].id = id /\ ~eventPool[i].region_wide
    THEN eventPool[CHOOSE i \in 1..Len(eventPool) : eventPool[i].id = id].targets
    ELSE SOUTH_ASIAN_COUNTRIES

\* what country c receives from the events of this step alone: the effects of
\* the one new event if c is in its target list, nothing otherwise
EffectsOfNewEventsOn(c) ==
    IF newEvents' # <<>> /\ c \in {newEvents'[1].targetCountries[i] :
                                      i \in 1..Len(newEvents'[1].targetCountries)}
    THEN newEvents'[1].effects
    ELSE <<>>

\* C24: in handleNextYear the effects of an event generated for year N go to
\* the eventEffects of exactly the countries of its target list (its explicit
\* targets, or the full roster if region_wide), in the update of year N only:
\* a country that is not targeted receives nothing from it, and the events
\* already in the history are not applied again.
C24_EventEffectsOnTargetsOnly ==
    [][YearAdvances =>
          /\ Len(newEvents') <= 1
          /\ \A i \in 1..Len(newEvents') :
                /\ newEvents'[i].year = gameState'.year
                /\ newEvents'[i].targetCountries = CatalogTargets(newEvents'[i].id)
          /\ gameState'.regionalMatrix.regionalEvents =
                gameState.regionalMatrix.regionalEvents \o newEvents'
          /\ \A spilloversByCountry \in {SnapshotSpillovers} :
                \A c \in DOMAIN gameState.countries :
                    gameState'.countries[c] =
                        [applyPolicyEffects(
                             gameState.countries[c],
                             DecisionsOf(allCountriesDecisions', c),
                             SpilloversFor(spilloversByCountry, c),
                             EffectsOfNewEventsOn(c),
                             jitterDraws'[c])
                         EXCEPT !.year = gameState.year + 1]]_vars

\* the second year brought fdi_boom, which targets India and Bangladesh only,
\* while the history holds health_breakthrough of the year before, which also
\* targets Sri Lanka
C24_Witness ==
    /\ gamePhase = "play"
    /\ gameState.year = StartYear + 2
    /\ Len(newEvents) = 1
    /\ newEvents[1].id = "fdi_boom"
    /\ newEvents[1].targetCountries = <<"India", "Bangladesh">>
    /\ Len(gameState.regionalMatrix.regionalEvents) = 2
    /\ gameState.regionalMatrix.regionalEvents[1].id = "health_breakthrough"
    /\ gameState.regionalMatrix.regionalEvents[1].year = StartYear + 1

----------------------------------------------------------------------------
\* generateRegionalEvents called on its own (SpecEvents)

\* the event the generator returns for the catalog entry with this id
Occurred(id, year) ==
    LET event == eventPool[CHOOSE i \in 1..Len(eventPool) : eventPool[i].id = id]
    IN  [id |-> id, year |-> year, effects |-> event.effects,
         targetCountries |-> IF event.region_wide THEN SOUTH_ASIAN_COUNTRIES
                             ELSE event.targets]

\* 2025 and 2028 are multiples of 3
EventYears == {2024, 2025, 2026, 2028}

EventCooperation == {0, 65000, 100000}

\* no event so far, one unique event, all three unique events and a drought
EventHistories ==
    { <<>>,
      << Occurred("fdi_boom", 2024) >>,
      << Occurred("fdi_boom", 2024), Occurred("health_breakthrough", 2025),
         Occurred("himalayan_earthquake", 2026), Occurred("drought", 2027) >> }

\* the draw of line 831, in thousandths, on both sides of 0.4 and of 0.6
GateDraws == {0, 399, 400, 500, 600, 601, 999}

\* every draw of line 869 is 0.2: the summit triggers at cooperation 100
\* (probability 0.3) and not at 65 (0.195); nothing else triggers
AllAt200 == [i \in 1..Len(eventPool) |-> 200]

EventDraws == {AllTrigger, NoneTriggers, SecondTriggers, AllAt200}

\* the rotation that stands for the shuffle of line 857
EventShuffles == {0, 5, 6, 8}

InitEvents ==
    /\ eventsPc = "called"
    /\ eventsCall \in [year : EventYears, cooperationIndex : EventCooperation,
                       history : EventHistories, gateDraw : GateDraws,
                       k : EventShuffles, draws : EventDraws]
    /\ eventsRet = <<>>
    /\ IdleApply /\ IdleScore /\ IdleSpill /\ IdleTrade /\ IdleGame /\ IdlePolicy

\* lines 829-894
GenerateRegionalEventsCall ==
    /\ eventsPc = "called"
    /\ eventsRet' = generateRegionalEvents(eventsCall.year, eventsCall.cooperationIndex,
                                           eventsCall.history, eventsCall.gateDraw,
                                           eventsCall.k, eventsCall.draws)
    /\ eventsPc' = "returned"
    /\ UNCHANGED eventsCall
    /\ UNCHANGED notEventsVars

NextEvents == GenerateRegionalEventsCall

SpecEvents == InitEvents /\ [][NextEvents]_vars

\* the events the call walks through, in the order it tries them
EventsTried ==
    Shuffle(PotentialEvents(eventsCall.history), eventsCall.k)

\* no event the call tries has a draw below its probability
NoCatalogDrawSucceeds ==
    \A i \in 1..Len(EventsTried) :
        ~(eventsCall.draws[i] < EventProbability(EventsTried[i], eventsCall.cooperationIndex))

\* C25: when the global gate passes and no catalog event's draw succeeds,
\* generateRegionalEvents returns exactly one event with id no_major_event,
\* effects {gdp_growth: +0.1} and the full roster as targetCountries if
\* year % 3 = 0, and the empty list otherwise; the returned list never has
\* more than one element.
C25_StabilityEventEveryThirdYear ==
    eventsPc = "returned" =>
        /\ Len(eventsRet) <= 1
        /\ (eventsCall.gateDraw <= 600 /\ NoCatalogDrawSucceeds) =>
              IF eventsCall.year % 3 = 0
              THEN /\ Len(eventsRet) = 1
                   /\ eventsRet[1].id = "no_major_event"
                   /\ eventsRet[1].effects = [gdp_growth |-> 100]
                   /\ eventsRet[1].targetCountries = SOUTH_ASIAN_COUNTRIES
                   /\ eventsRet[1].year = eventsCall.year
              ELSE eventsRet = <<>>

\* the stability event of 2025 when every draw missed, after a history that
\* filters the unique events out
C25_Witness ==
    /\ eventsPc = "returned"
    /\ eventsCall.year = 2025
    /\ eventsCall.gateDraw = 600
    /\ eventsCall.draws = AllAt200
    /\ eventsCall.cooperationIndex = 65000
    /\ Len(eventsCall.history) = 4
    /\ Len(eventsRet) = 1
    /\ eventsRet[1].id = "no_major_event"

\* a year that is no multiple of 3: the gate passed, every draw missed, and
\* the call returned the empty list
C25_WitnessEmpty ==
    /\ eventsPc = "returned"
    /\ eventsCall.year = 2026
    /\ eventsCall.gateDraw = 0
    /\ eventsCall.draws = NoneTriggers
    /\ eventsRet = <<>>

\* the gate draws of the grid 0.000, 0.001, ..., 0.999 that let the call proceed
GateGrid == 0..(Scale - 1)

ProceedingGateDraws == {g \in GateGrid : ~GateCloses(g)}

\* C26 as stated: the gate returns [] immediately for 60% of the range of its
\* draw and lets the call proceed to the catalog walk for the remaining 40%.
C26_ProceedsFor40Percent ==
    eventsPc = "returned" =>
        /\ GateCloses(eventsCall.gateDraw) => eventsRet = <<>>
        /\ Cardinality(ProceedingGateDraws) * 10 <= 4 * Cardinality(GateGrid) + 10

\* C26, amended: the gate is drawn once, the call returns [] immediately when
\* the draw is above 0.6, that is for 40% of the range, and proceeds to the
\* catalog walk for the other 60% (a draw of at most 0.6), where it returns an
\* event as soon as one catalog draw succeeds.
C26_ProceedsFor60Percent ==
    eventsPc = "returned" =>
        /\ eventsCall.gateDraw > 600 => eventsRet = <<>>
        /\ (eventsCall.gateDraw <= 600 /\ ~NoCatalogDrawSucceeds) =>
              /\ Len(eventsRet) = 1
              /\ eventsRet[1].id # "no_major_event"
        /\ Cardinality(ProceedingGateDraws) * 10 >= 6 * Cardinality(GateGrid)
        /\ Cardinality(ProceedingGateDraws) * 10 <= 6 * Cardinality(GateGrid) + 10

\* a gate draw of 0.5, in the 60% the claim gives to the immediate return,
\* after which the call went through the catalog and returned an event
C26_Witness ==
    /\ eventsPc = "returned"
    /\ eventsCall.gateDraw = 500
    /\ eventsCall.draws = AllTrigger
    /\ Len(eventsRet) = 1
    /\ eventsRet[1].id = "fdi_boom"

----------------------------------------------------------------------------
\* Magnitude buckets of the aggregate spillovers (SpecSpill)

\* the thresholds of each policy type, in thousandths: <<high, medium>>
BucketThresholds(policyType) ==
    CASE policyType = "trade_gdp" -> <<100, 50>>
      [] policyType = "infrastructure" -> <<80, 40>>
      [] policyType = "environment" -> <<50, 20>>
      [] policyType = "manufacturing" -> <<60, 30>>
      [] policyType = "technology" -> <<80, 40>>
      [] policyType = "energy" -> <<100, 50>>

\* the bucket abs(effect) falls in for the thresholds of the policy type
BucketOfAbs(policyType, effect) ==
    LET size == IF effect < 0 THEN 0 - effect ELSE effect
    IN  IF size > BucketThresholds(policyType)[1] THEN "high"
        ELSE IF size > BucketThresholds(policyType)[2] THEN "medium"
        ELSE "low"

\* C27: the magnitude bucket of every aggregate PolicySpillover is given by
\* abs(effect) against the two thresholds of its policy type, so that effects
\* e and -e of one policy type get the same bucket.
C27_BucketByAbsEffect ==
    spillPc = "directDone" =>
        \A i \in 1..Len(spilloversRet) :
            spilloversRet[i].magnitude =
                BucketOfAbs(spilloversRet[i].policyType, spilloversRet[i].effect)

\* what holds instead: the bucket follows abs(effect) for every policy type
\* but trade_gdp, and for trade_gdp when the effect is not negative; a
\* negative trade_gdp effect is always in the bucket low
C27_ExceptNegativeTradeGdp ==
    spillPc = "directDone" =>
        \A i \in 1..Len(spilloversRet) :
            IF spilloversRet[i].policyType = "trade_gdp" /\ spilloversRet[i].effect < 0
            THEN spilloversRet[i].magnitude = "low"
            ELSE spilloversRet[i].magnitude =
                     BucketOfAbs(spilloversRet[i].policyType, spilloversRet[i].effect)

\* India's gdp_growth change of -2.0 over the edge to Bhutan: a trade_gdp
\* spillover whose effect is below -0.05 and whose bucket is low
C27_FailingInput ==
    /\ spillPc = "directDone"
    /\ sourceArg = "India"
    /\ policyChangesArg["gdp_growth"] = 0 - 2000
    /\ \E i \in 1..Len(spilloversRet) :
          /\ spilloversRet[i].policyType = "trade_gdp"
          /\ spilloversRet[i].targetCountry = "Bhutan"
          /\ spilloversRet[i].effect < 0 - 50
          /\ spilloversRet[i].magnitude = "low"

----------------------------------------------------------------------------
\* The last year of the game (SpecLong)

\* C28: the simulated year never exceeds endYear (2043): once gameState.year
\* has reached endYear, handleNextYear neither advances gameState.year nor
\* replaces the country states.
C28_YearNeverExceedsEndYear ==
    /\ gameState.year <= EndYear
    /\ \A c \in DOMAIN gameState.countries : gameState.countries[c].year <= EndYear

\* what holds of the claim: while gameActive is false no step advances the
\* year or gives the countries a state of another year
C28_InactiveYearStands ==
    [][~gameState.gameActive =>
          /\ gameState'.year = gameState.year
          /\ \A c \in DOMAIN gameState'.countries :
                gameState'.countries[c].year = StartYear]_vars

\* handleNextYear ran in year 2043: the year is 2044, every country state is
\* one of 2044, and the game is still active
C28_FailingInput ==
    /\ gamePhase = "play"
    /\ gameState.gameActive
    /\ gameState.year = EndYear + 1
    /\ \A c \in DOMAIN gameState.countries : gameState.countries[c].year = EndYear + 1
    /\ Len(historicalStats) = LongYears + 1

\* C29: in every reachable game state the structural shares
\* agriculture_gdp_percent, manufacturing_gdp_percent and services_gdp_percent
\* of every country lie in [0,100].
C29_SharesInRange ==
    \A c \in DOMAIN gameState.countries :
        /\ gameState.countries[c].agriculture_gdp_percent \in 0..100000
        /\ gameState.countries[c].manufacturing_gdp_percent \in 0..100000
        /\ gameState.countries[c].services_gdp_percent \in 0..100000

\* what holds instead: no step changes the manufacturing or the services
\* share of a country, and the agriculture share never rises and falls by
\* exactly 1.0 in a year whose event is a drought that targets the country
C29_OnlyDroughtMovesShares ==
    [][\A c \in DOMAIN gameState.countries \cap DOMAIN gameState'.countries :
          /\ gameState'.countries[c].manufacturing_gdp_percent = 20000
          /\ gameState'.countries[c].services_gdp_percent = 50000
          /\ IF /\ YearAdvances
                /\ newEvents' # <<>>
                /\ newEvents'[1].id = "drought"
                /\ c \in {"Pakistan", "India", "Afghanistan"}
             THEN gameState'.countries[c].agriculture_gdp_percent =
                      gameState.countries[c].agriculture_gdp_percent - 1000
             ELSE gameState'.countries[c].agriculture_gdp_percent \in
                      {gameState.countries[c].agriculture_gdp_percent, 15000}]_vars

\* the 16th drought in a row, in 2039: India's agriculture share, 15 at the
\* start, is -1
C29_FailingInput ==
    /\ gamePhase = "play"
    /\ gameState.year = StartYear + 16
    /\ gameState.year <= EndYear
    /\ gameState.countries["India"].agriculture_gdp_percent = 0 - 1000
    /\ Len(gameState.regionalMatrix.regionalEvents) = 16
    /\ \A i \in 1..16 : gameState.regionalMatrix.regionalEvents[i].id = "drought"

----------------------------------------------------------------------------
\* Restart (Spec)

\* the step is a handleRestart
RestartStep == gamePhase \in {"play", "report"} /\ gamePhase' = "select"

\* C30: handleRestart returns the game to its initial configuration after any
\* number of simulated years: year 2023, gameActive false, playerCountry
\* empty, event history empty, cooperationIndex 65, and a trade matrix whose
\* every edge has the tradeVolume, tariffRate and cooperation of
\* INITIAL_TRADE_MATRIX.
C30_RestartGivesInitialConfiguration ==
    [][RestartStep =>
          /\ gameState'.year = 2023
          /\ ~gameState'.gameActive
          /\ gameState'.playerCountry = ""
          /\ gameState'.regionalMatrix.regionalEvents = <<>>
          /\ gameState'.regionalMatrix.cooperationIndex = 65000
          /\ Len(gameState'.regionalMatrix.tradeMatrix) = Len(INITIAL_TRADE_MATRIX)
          /\ \A i \in 1..Len(INITIAL_TRADE_MATRIX) :
                /\ gameState'.regionalMatrix.tradeMatrix[i].from = INITIAL_TRADE_MATRIX[i].from
                /\ gameState'.regionalMatrix.tradeMatrix[i].to = INITIAL_TRADE_MATRIX[i].to
                /\ gameState'.regionalMatrix.tradeMatrix[i].tradeVolume =
                      INITIAL_TRADE_MATRIX[i].tradeVolume
                /\ gameState'.regionalMatrix.tradeMatrix[i].tariffRate =
                      INITIAL_TRADE_MATRIX[i].tariffRate
                /\ gameState'.regionalMatrix.tradeMatrix[i].cooperation =
                      INITIAL_TRADE_MATRIX[i].cooperation
          /\ \A c \in DOMAIN gameState'.countries : gameState'.countries[c].year = 2023
          /\ historicalStats' = <<>>]_vars

\* two years were played, with an event, an event history and a trade matrix
\* that had moved away from the initial one, and the game can be restarted
C30_Witness ==
    /\ gamePhase \in {"play", "report"}
    /\ gameState.year = StartYear + 2
    /\ gameState.playerCountry = "Nepal"
    /\ Len(gameState.regionalMatrix.regionalEvents) = 2
    /\ gameState.regionalMatrix.cooperationIndex # 65000
    /\ \E i \in 1..Len(INITIAL_TRADE_MATRIX) :
          /\ gameState.regionalMatrix.tradeMatrix[i].tradeVolume #
                INITIAL_TRADE_MATRIX[i].tradeVolume
          /\ gameState.regionalMatrix.tradeMatrix[i].cooperation #
                INITIAL_TRADE_MATRIX[i].cooperation

\* the game after that restart: the selection screen with the events of the
\* second year still in newEvents and the initial configuration in gameState
C30_WitnessRestarted ==
    /\ gamePhase = "select"
    /\ Loaded
    /\ newEvents # <<>>
    /\ newEvents[1].year = StartYear + 2
    /\ gameState.regionalMatrix = INITIAL_REGIONAL_MATRIX
    /\ gameState.year = 2023

====
